---- MODULE Spec2Model ----
(***************************************************************************)
(* Model of the voice pipeline of backend/speech_client.py.                *)
(*                                                                         *)
(* Part 1: the energy based voice-activity detector                        *)
(* (_SimpleEnergyVADStream).  One stream object is modelled as the record  *)
(* `stream`, whose fields are the attributes of the Python object; the     *)
(* event channel of the stream is the field event_ch.  Durations are kept  *)
(* in integer milliseconds.  The wall-clock timestamp of an event          *)
(* (time.time()) is not modelled.                                          *)
(*                                                                         *)
(* Part 2: the session registry of backend/session.py (SessionRegistry),   *)
(* once with whole operations as steps (RegSpec) and once with the steps   *)
(* of concurrent callers and of the reader thread interleaved              *)
(* (RegConcSpec).  Times are whole seconds of datetime.now().              *)
(*                                                                         *)
(* Part 3: the HTTP speech adapters DrascomSTT and DrascomTTS.  BodySpec    *)
(* composes response bodies and runs the two extractors on them; HttpSpec  *)
(* runs recognize and synthesize calls against every transport outcome.    *)
(* A Python string is the sequence of its characters, a JSON value is a    *)
(* record tagged with its type.  TtsSpec adds update_options.              *)
(*                                                                         *)
(* Part 4: entrypoint of backend/agent.py as far as it uses the registry   *)
(* (EntrySpec): each job is an asyncio task, and a step of a job runs from *)
(* one suspension point to the next; and the Assistant of agent.py, which  *)
(* follows the detected language (TurnSpec).                               *)
(*                                                                         *)
(* Part 5: the readiness tracker of legacy-agent/agent_status.py           *)
(* (StatusSpec).                                                           *)
(*                                                                         *)
(* Record constructors list their fields in the order in which TLC keeps   *)
(* them, so a value shared by two workers is never rearranged in place.    *)
(***************************************************************************)
EXTENDS Integers, Sequences, FiniteSets, TLC

VARIABLES
    stream,        \* the _SimpleEnergyVADStream object
    pc,            \* position of _main_task: "loop" or "done"
    input_closed,  \* the input channel has been closed by the producer
    trace          \* history: the chunks consumed so far, each with the events it emitted

vadVars == <<stream, pc, input_closed, trace>>

VARIABLES
    sessions,        \* SessionRegistry._sessions, an insertion-ordered dict
    greeting_times,  \* SessionRegistry._greeting_times
    room_lock,       \* SessionRegistry._room_lock: 0 when free, else the holding task
    now,             \* the reading of datetime.now(), in seconds
    tasks,           \* the callers of the registry: position and locals of each
    latest,          \* history: per room, what the last register / unregister returned
    greeted,         \* history: per identity, when record_greeting was last called
    last_op          \* history: the last operation on the registry

regVars == <<sessions, greeting_times, room_lock, now, tasks, latest, greeted, last_op>>

VARIABLES
    body,       \* the response body a speech server is composing (a JSON value)
    extracted,  \* what the two extractors returned for the finished body, if run
    stt_opts,   \* DrascomSTT._opts
    tts_opts,   \* DrascomTTS._opts
    last_update, \* history: the arguments of the last update_options call
    call        \* the current recognize / synthesize call: position and locals

httpVars == <<body, extracted, stt_opts, tts_opts, last_update, call>>

VARIABLES
    jobs        \* the running entrypoint calls of agent.py: position and locals of each

entryVars == <<jobs>>

VARIABLES
    assistant,  \* the Assistant object of agent.py
    heard,      \* history: the language of the last transcription event
    turns       \* history: the number of completed user turns

turnVars == <<assistant, heard, turns>>

VARIABLES
    model_status,  \* agent_status._MODEL_STATUS
    ready_event,   \* agent_status._READY_EVENT: TRUE when set
    waiter,        \* a caller of wait_until_ready
    snapshot       \* what the last get_status_snapshot returned

statusVars == <<model_status, ready_event, waiter, snapshot>>

vars == <<vadVars, regVars, httpVars, entryVars, turnVars, statusVars>>

\* everything that is not part of the VAD stream
notVadVars == <<statusVars, regVars, httpVars, entryVars, turnVars>>

\* what the actions of the registry leave alone
notRegVars == <<statusVars, vadVars, httpVars, entryVars, turnVars>>

\* what the actions of the speech adapters leave alone
notHttpVars == <<statusVars, vadVars, regVars, entryVars, turnVars>>

\* what the steps of entrypoint leave alone, the registry apart
notEntryVars == <<vadVars, httpVars, turnVars, statusVars>>

\* what the Assistant leaves alone, the TTS options apart
notTurnVars == <<vadVars, regVars, entryVars, statusVars>>

\* what agent_status leaves alone
notStatusVars == <<vadVars, regVars, httpVars, entryVars, turnVars>>

\* ------------------------------------------------------------------ bounds
\* number of chunks (frames and flushes) one stream is fed
MaxChunks == 4

\* ------------------------------------------------------- program constants
DEFAULT_VAD_THRESHOLD == 500

\* DEFAULT_VAD_MIN_SPEECH = 0.1 s, in milliseconds
DEFAULT_VAD_MIN_SPEECH == 100

START_OF_SPEECH == "START_OF_SPEECH"
END_OF_SPEECH == "END_OF_SPEECH"

\* ------------------------------------------------------------------ inputs
\* rtc.AudioFrame: 16 bit PCM bytes (little endian), samples per channel and
\* sample rate.  At 20 Hz one sample lasts 50 ms.
Frame(d, n) == [data |-> d, samples_per_channel |-> n, sample_rate |-> 20]

Silent50 == Frame(<<243, 1>>, 1)               \* one sample of 499
Silent100 == Frame(<<255, 255, 243, 1>>, 2)    \* samples -1 and 499
Voiced50 == Frame(<<244, 1>>, 1)               \* one sample of 500
Voiced100 == Frame(<<0, 0, 0, 128>>, 2)        \* samples 0 and -32768
Odd50 == Frame(<<244, 1, 7>>, 1)               \* one sample of 500 and a stray byte
Empty0 == Frame(<<>>, 0)                       \* no sample data at all
OneByte0 == Frame(<<7>>, 0)                    \* a single stray byte

Frames == {Silent50, Silent100, Voiced50, Voiced100, Odd50, Empty0, OneByte0}

\* constructor arguments of SimpleEnergyVAD (threshold, min_speech_duration and
\* silence_timeout in milliseconds)
VadOptions ==
    { [threshold |-> DEFAULT_VAD_THRESHOLD, min_speech_duration |-> DEFAULT_VAD_MIN_SPEECH,
       silence_timeout |-> 150],
      [threshold |-> DEFAULT_VAD_THRESHOLD, min_speech_duration |-> 50,
       silence_timeout |-> 100] }

\* a detector that asks for no minimum of speech (SPEECH_VAD_MIN_SPEECH_DURATION=0)
VadOptionsNoMinimum ==
    [threshold |-> DEFAULT_VAD_THRESHOLD, min_speech_duration |-> 0, silence_timeout |-> 100]

\* ----------------------------------------------------------------- helpers
Abs(x) == IF x < 0 THEN -x ELSE x

SetMax(S) == CHOOSE m \in S : \A x \in S : x <= m

\* one little-endian signed 16 bit sample (memoryview.cast("h"))
Sample(lo, hi) ==
    LET u == lo + 256 * hi
    IN IF u >= 32768 THEN u - 65536 ELSE u

\* faulty variant of _frame_amplitude: odd-length data is silence
frame_amplitude_odd_is_silence(frame) ==
    LET raw == frame.data
    IN IF Len(raw) < 2 \/ Len(raw) % 2 # 0
       THEN 0
       ELSE LET view == [i \in 1..(Len(raw) \div 2) |-> Sample(raw[2 * i - 1], raw[2 * i])]
            IN SetMax({Abs(view[i]) : i \in 1..Len(view)})

\* _frame_amplitude: peak absolute sample of the frame's data
frame_amplitude(frame) ==
    LET raw == frame.data
    IN IF Len(raw) < 2
       THEN 0
       ELSE LET n == IF Len(raw) % 2 # 0 THEN Len(raw) - 1 ELSE Len(raw)
                view == [i \in 1..(n \div 2) |-> Sample(raw[2 * i - 1], raw[2 * i])]
            IN IF Len(view) = 0
               THEN 0
               ELSE SetMax({Abs(view[i]) : i \in 1..Len(view)})

\* rtc.AudioFrame.duration: samples_per_channel / sample_rate, in milliseconds
frame_duration_property(frame) ==
    IF frame.sample_rate # 0
    THEN (frame.samples_per_channel * 1000) \div frame.sample_rate
    ELSE 0

\* the duration _process_frame uses: frame.duration, or the quotient when that is 0
frame_duration(frame) ==
    IF frame_duration_property(frame) # 0
    THEN frame_duration_property(frame)
    ELSE IF frame.sample_rate # 0
         THEN (frame.samples_per_channel * 1000) \div frame.sample_rate
         ELSE 0

\* faulty variant of the event record: the end reports the configured timeout as silence
VADEvent_timeout_as_silence(type, s) ==
    [type |-> type,
     samples_index |-> s.speech_start_index,
     speech_duration |-> IF type = START_OF_SPEECH THEN 0 ELSE s.speech_duration,
     silence_duration |-> IF type = START_OF_SPEECH THEN 0 ELSE s.silence_timeout,
     frames |-> s.speech_frames]

\* vad.VADEvent as _start_speech and _emit_end build it
VADEvent(type, s) ==
    [type |-> type,
     samples_index |-> s.speech_start_index,
     speech_duration |-> IF type = START_OF_SPEECH THEN 0 ELSE s.speech_duration,
     silence_duration |-> IF type = START_OF_SPEECH THEN 0 ELSE s.silence_accumulated,
     frames |-> s.speech_frames]

\* _SimpleEnergyVADStream.__init__
NewStream(opts) ==
    [threshold |-> opts.threshold,
     min_speech_duration |-> opts.min_speech_duration,
     silence_timeout |-> opts.silence_timeout,
     samples_index |-> 0,
     speech_start_index |-> 0,
     speech_duration |-> 0,
     speech_frames |-> <<>>,
     silence_accumulated |-> 0,
     pending_frames |-> <<>>,
     pending_duration |-> 0,
     speech_started |-> FALSE,
     event_ch |-> <<>>]

\* faulty variant of _start_speech: the duration of the candidates is not carried over
start_speech_zero_duration(s) ==
    LET a == [s EXCEPT !.speech_started = TRUE,
                       !.speech_start_index = s.samples_index,
                       !.speech_frames = s.pending_frames,
                       !.speech_duration = 0,
                       !.pending_frames = <<>>,
                       !.pending_duration = 0]
    IN [a EXCEPT !.event_ch = Append(@, VADEvent(START_OF_SPEECH, a))]

\* faulty variant of _start_speech: the start index is not taken from the sample counter
start_speech_keeps_index(s) ==
    LET a == [s EXCEPT !.speech_started = TRUE,
                       !.speech_frames = s.pending_frames,
                       !.speech_duration = s.pending_duration,
                       !.pending_frames = <<>>,
                       !.pending_duration = 0]
    IN [a EXCEPT !.event_ch = Append(@, VADEvent(START_OF_SPEECH, a))]

\* faulty variant of _start_speech: the candidates are not cleared
start_speech_keeps_pending(s) ==
    LET a == [s EXCEPT !.speech_started = TRUE,
                       !.speech_start_index = s.samples_index,
                       !.speech_frames = s.pending_frames,
                       !.speech_duration = s.pending_duration]
    IN [a EXCEPT !.event_ch = Append(@, VADEvent(START_OF_SPEECH, a))]

\* _start_speech
start_speech(s) ==
    LET a == [s EXCEPT !.speech_started = TRUE,
                       !.speech_start_index = s.samples_index,
                       !.speech_frames = s.pending_frames,
                       !.speech_duration = s.pending_duration,
                       !.pending_frames = <<>>,
                       !.pending_duration = 0]
    IN [a EXCEPT !.event_ch = Append(@, VADEvent(START_OF_SPEECH, a))]

\* faulty variant of _emit_end: the speaking flag is not cleared
emit_end_keep_started(s) ==
    IF ~s.speech_started
    THEN s
    ELSE [s EXCEPT !.event_ch = Append(@, VADEvent(END_OF_SPEECH, s)),
                   !.speech_frames = <<>>,
                   !.speech_duration = 0,
                   !.silence_accumulated = 0,
                   !.pending_frames = <<>>,
                   !.pending_duration = 0]

\* faulty variant of _emit_end: the accumulators of the segment are not cleared
emit_end_keeps_accumulators(s) ==
    IF ~s.speech_started
    THEN s
    ELSE [s EXCEPT !.event_ch = Append(@, VADEvent(END_OF_SPEECH, s)),
                   !.speech_started = FALSE,
                   !.speech_frames = <<>>]

\* _emit_end
emit_end(s) ==
    IF ~s.speech_started
    THEN s
    ELSE [s EXCEPT !.event_ch = Append(@, VADEvent(END_OF_SPEECH, s)),
                   !.speech_started = FALSE,
                   !.speech_frames = <<>>,
                   !.speech_duration = 0,
                   !.silence_accumulated = 0,
                   !.pending_frames = <<>>,
                   !.pending_duration = 0]

\* faulty variant of the threshold test: the comparison is reversed
is_voiced_reversed(s, frame) == frame_amplitude(frame) <= s.threshold

\* _process_frame: amplitude >= self._threshold
is_voiced(s, frame) == frame_amplitude(frame) >= s.threshold

\* faulty variant of the minimum duration gate: strict comparison
min_speech_exceeded(s) == s.pending_duration > s.min_speech_duration

\* _process_frame: self._pending_duration >= self._min_speech_duration
min_speech_reached(s) == s.pending_duration >= s.min_speech_duration

\* faulty variant of the silence timeout test: strict comparison
silence_exceeded_strictly(s) == s.silence_accumulated > s.silence_timeout

\* _process_frame: self._silence_accumulated >= self._silence_timeout
silence_reached(s) == s.silence_accumulated >= s.silence_timeout

\* faulty variant of the reset: the accumulated silence is kept
reset_silence_skipped(s) == s

\* _process_frame: self._silence_accumulated = 0.0
reset_silence(s) == [s EXCEPT !.silence_accumulated = 0]

\* faulty variant of the sub-threshold branch: the candidates are discarded
on_silent_frame_clears_pending(s, duration) ==
    IF s.speech_started
    THEN [s EXCEPT !.silence_accumulated = @ + duration]
    ELSE [s EXCEPT !.pending_frames = <<>>, !.pending_duration = 0]

\* _process_frame, the sub-threshold branch up to the timeout test
on_silent_frame(s, duration) ==
    IF s.speech_started
    THEN [s EXCEPT !.silence_accumulated = @ + duration]
    ELSE s

\* faulty variant of the speaking branch: the duration is counted, the frame is not kept
on_voiced_speaking_drops_frame(s, frame, duration) ==
    [s EXCEPT !.speech_duration = @ + duration]

\* _process_frame, a voiced frame while speaking: append the frame, add its duration
on_voiced_speaking(s, frame, duration) ==
    [s EXCEPT !.speech_frames = Append(@, frame),
              !.speech_duration = @ + duration]

\* _process_frame
process_frame(s, frame) ==
    LET duration == frame_duration(frame)
        voiced == is_voiced(s, frame)
        s1 == IF voiced
              THEN LET a == reset_silence(s)
                   IN IF a.speech_started
                      THEN on_voiced_speaking(a, frame, duration)
                      ELSE LET b == [a EXCEPT !.pending_frames = Append(@, frame),
                                              !.pending_duration = @ + duration]
                           IN IF min_speech_reached(b)
                              THEN start_speech(b)
                              ELSE b
              ELSE on_silent_frame(s, duration)
        silence_exceeded ==
            /\ ~voiced
            /\ s.speech_started
            /\ silence_reached(s1)
        s2 == [s1 EXCEPT !.samples_index = @ + frame.samples_per_channel]
    IN IF silence_exceeded THEN emit_end(s2) ELSE s2

\* faulty variant of the flush branch: the flush is ignored
on_flush_ignored(s) == s

\* faulty variant of the flush branch: a flush discards the candidates
on_flush_clears_pending(s) ==
    IF s.speech_started THEN emit_end(s)
    ELSE [s EXCEPT !.pending_frames = <<>>, !.pending_duration = 0]

\* _main_task, the flush branch of the loop body
on_flush(s) == IF s.speech_started THEN emit_end(s) ELSE s

\* faulty variant of the finally block: the open segment is left open
on_finally_skipped(s) == s

\* _main_task, the finally block
on_finally(s) == IF s.speech_started THEN emit_end(s) ELSE s

\* the events a step appended to the event channel
Emitted(old, new) == SubSeq(new.event_ch, Len(old.event_ch) + 1, Len(new.event_ch))

\* history entries: a frame, a flush sentinel, or the end of the loop
FrameStep(frame, old, new) == [frame |-> frame, kind |-> "frame", out |-> Emitted(old, new)]

FlushStep(old, new) == [kind |-> "flush", out |-> Emitted(old, new)]

CloseStep(old, new) == [kind |-> "close", out |-> Emitted(old, new)]

\* ============================================= Part 2: the session registry
\* ------------------------------------------------------ registry: bounds
\* the clock runs from 0 to MaxTime seconds
MaxTime == 2

\* ------------------------------------------- registry: program constants
\* should_greet(..., min_seconds: int = 3600)
DEFAULT_MIN_SECONDS == 3600

\* ------------------------------------------------------ registry: inputs
Rooms == {"roomA", "roomB"}

Identities == {"u1", "u2"}

\* opaque AgentSession handles
Handles == {1, 2}

\* the coroutines of the event loop that call the registry
Tasks == {1, 2}

\* the min_seconds arguments should_greet is asked with
MinSecondsChoices == {0, 1, 2, DEFAULT_MIN_SECONDS}

UserName(identity) == IF identity = "u1" THEN "Ann" ELSE "Bob"

\* an Optional value: <<>> is None, <<v>> is v
None == <<>>

Some(v) == <<v>>

\* ------------------------------------------------ registry: Python dicts
\* a dict is the sequence of its items in insertion order
DictKeys(d) == {d[i].key : i \in 1..Len(d)}

DictIndex(d, k) == CHOOSE i \in 1..Len(d) : d[i].key = k

\* d.get(k)
dict_get(d, k) == IF k \in DictKeys(d) THEN Some(d[DictIndex(d, k)].value) ELSE None

\* faulty variant of d[k] = v: a new item is added even when the key is present
dict_set_append(d, k, v) == Append(d, [key |-> k, value |-> v])

\* d[k] = v
dict_set(d, k, v) ==
    IF k \in DictKeys(d)
    THEN [d EXCEPT ![DictIndex(d, k)].value = v]
    ELSE Append(d, [key |-> k, value |-> v])

\* d without the item of key k
DictWithout(d, k) ==
    LET Keep(item) == item.key # k
    IN SelectSeq(d, Keep)

\* faulty variant of d.pop(k, None): the item is returned but stays in the dict
dict_pop_keeps(d, k) == [dict |-> d, ret |-> dict_get(d, k)]

\* d.pop(k, None): the dict afterwards and the value returned
dict_pop(d, k) == [dict |-> DictWithout(d, k), ret |-> dict_get(d, k)]

\* list(d.values())
dict_values(d) == [i \in 1..Len(d) |-> d[i].value]

\* --------------------------------------------- registry: the operations
\* the SessionInfo dataclass
SessionInfo(room_name, user_identity, user_name, created_at, agent_session, agent, metadata) ==
    [room_name |-> room_name,
     user_identity |-> user_identity,
     user_name |-> user_name,
     created_at |-> created_at,
     agent_session |-> agent_session,
     agent |-> agent,
     metadata |-> metadata]

\* register: the SessionInfo(...) expression; metadata is a string, "None" when not given
register_build(room_name, user_identity, user_name, agent_session, agent, metadata, t) ==
    SessionInfo(room_name, user_identity, user_name, t, agent_session, agent,
                IF metadata = "None" THEN "{}" ELSE metadata)

\* faulty variant of the insertion: the record is stored before its name is set
register_insert_unfinished(d, session) ==
    dict_set(d, session.room_name, [session EXCEPT !.user_name = ""])

\* register: self._sessions[room_name] = session
register_insert(d, session) == dict_set(d, session.room_name, session)

\* unregister: self._sessions.pop(room_name, None)
unregister_pop(d, room_name) == dict_pop(d, room_name)

\* get
get(d, room_name) == dict_get(d, room_name)

\* get_by_user: the first session of that user in iteration order
get_by_user(d, user_identity) ==
    LET hits == {i \in 1..Len(d) : d[i].value.user_identity = user_identity}
    IN IF hits = {}
       THEN None
       ELSE Some(d[CHOOSE i \in hits : \A j \in hits : i <= j].value)

\* list_sessions
list_sessions(d) == dict_values(d)

\* active_count
active_count(d) == Len(d)

\* faulty variant of should_greet: the boundary is excluded
should_greet_strict(g, user_identity, min_seconds, t) ==
    LET last_greeted_at == dict_get(g, user_identity)
    IN IF last_greeted_at = None
       THEN TRUE
       ELSE t - last_greeted_at[1] > min_seconds

\* should_greet, at clock reading t
should_greet(g, user_identity, min_seconds, t) ==
    LET last_greeted_at == dict_get(g, user_identity)
    IN IF last_greeted_at = None
       THEN TRUE
       ELSE t - last_greeted_at[1] >= min_seconds

\* record_greeting, at clock reading t
record_greeting(g, user_identity, t) == dict_set(g, user_identity, t)

\* the two dicts of the registry object
Registry(s, g) == [sessions |-> s, greeting_times |-> g]

\* register on the whole object: only _sessions is written
registry_register(self, session) ==
    [self EXCEPT !.sessions = register_insert(@, session)]

\* faulty variant of unregister: the greeting time of the session's user goes with it
registry_unregister_forgets_greeting(self, room_name) ==
    LET popped == unregister_pop(self.sessions, room_name)
    IN [self EXCEPT !.sessions = popped.dict,
                    !.greeting_times = IF Len(popped.ret) > 0
                                       THEN DictWithout(@, popped.ret[1].user_identity)
                                       ELSE @]

\* unregister on the whole object: only _sessions is written
registry_unregister(self, room_name) ==
    [self EXCEPT !.sessions = unregister_pop(@, room_name).dict]

\* record_greeting on the whole object: only _greeting_times is written
registry_record_greeting(self, user_identity, t) ==
    [self EXCEPT !.greeting_times = record_greeting(@, user_identity, t)]

\* faulty variant of the lock: it is handed out while held
lock_always_free(l) == TRUE

\* asyncio.Lock: acquire() goes through when nobody holds the lock
lock_free(l) == l = 0

IdleTask == [pc |-> "idle", identity |-> "", session |-> None, room |-> ""]

\* SessionRegistry.__new__: an empty registry, and nobody calling it
RegStart ==
    /\ sessions = <<>>
    /\ greeting_times = <<>>
    /\ room_lock = 0
    /\ now = 0
    /\ tasks = [t \in Tasks |-> IdleTask]
    /\ latest = [r \in Rooms |-> None]
    /\ greeted = [u \in Identities |-> None]
    /\ last_op = [key |-> "", ret |-> None, op |-> "none", locked |-> FALSE, tog |-> 0]

\* ------------------------------------------------------ entrypoint: jobs
Jobs == {1, 2}

\* a job: pc is "none" (no job), "starting" (suspended in ctx.connect or
\* session.start), "greeting" (suspended in session.generate_reply) or "done";
\* disconnected: the room has emitted "disconnected"; handler: on_disconnect is
\* attached; cleanup: the unregister task is not made ("none"), "scheduled" or
\* "done"; history: greets (the job generated the greeting), record (what its
\* register returned), removed (what its unregister returned)
Job(at, room_name, user_identity) ==
    [pc |-> at, identity |-> user_identity, room |-> room_name, disconnected |-> FALSE,
     handler |-> FALSE, cleanup |-> "none", greets |-> FALSE, record |-> None, removed |-> None]

\* no entrypoint is running
EntryOff == jobs = [j \in Jobs |-> Job("none", "", "")]

\* ------------------------------------------- speech adapters: JSON values
\* a decoded JSON value: a string (its characters), a list (its elements), a
\* dict (its items in order), null, or a number
Str(chars) == [v |-> chars, t |-> "str"]

List(elements) == [v |-> elements, t |-> "list"]

Dict(items) == [v |-> items, t |-> "dict"]

Null == [v |-> <<>>, t |-> "null"]

Number == [v |-> <<>>, t |-> "num"]

Item(k, value) == [key |-> k, value |-> value]

\* str.strip(): leading and trailing whitespace removed
IsSpace(c) == c \in {" ", "\n", "\t"}

RECURSIVE lstrip(_)
lstrip(chars) == IF Len(chars) > 0 /\ IsSpace(Head(chars)) THEN lstrip(Tail(chars)) ELSE chars

RECURSIVE rstrip(_)
rstrip(chars) ==
    IF Len(chars) > 0 /\ IsSpace(chars[Len(chars)])
    THEN rstrip(SubSeq(chars, 1, Len(chars) - 1))
    ELSE chars

strip(chars) == rstrip(lstrip(chars))

\* `if candidate:` on a str | None: a non-empty string
truthy(candidate) == Len(candidate) > 0 /\ Len(candidate[1]) > 0

\* faulty variant of the test on a direct value: any string passes
is_text_unstripped(value) == Len(value) > 0 /\ value[1].t = "str"

\* isinstance(value, str) and value.strip(), on the result of body.get(key)
is_text(value) == Len(value) > 0 /\ value[1].t = "str" /\ Len(strip(value[1].v)) > 0

\* isinstance(value, list), on the result of body.get(key)
is_list(value) == Len(value) > 0 /\ value[1].t = "list"

TEXT_KEYS == <<"text", "transcript", "transcription", "result", "output">>

LANGUAGE_KEYS == <<"language", "lang", "detected_language">>

LIST_KEYS == <<"segments", "alternatives", "data">>

\* for key in keys: value = body.get(key); if it is a non-blank str: return value.strip()
RECURSIVE first_string_value(_, _)
first_string_value(items, keys) ==
    IF Len(keys) = 0 THEN None
    ELSE LET value == dict_get(items, Head(keys))
         IN IF is_text(value) THEN Some(strip(value[1].v))
            ELSE first_string_value(items, Tail(keys))

RECURSIVE extract_transcription(_)

\* for part in parts: candidate = _extract_transcription(part); if candidate: return candidate
RECURSIVE first_transcription(_)
first_transcription(parts) ==
    IF Len(parts) = 0 THEN None
    ELSE LET candidate == extract_transcription(Head(parts))
         IN IF truthy(candidate) THEN candidate ELSE first_transcription(Tail(parts))

\* for key in ("segments", "alternatives", "data"): the items of a list value
RECURSIVE nested_transcription(_, _)
nested_transcription(items, keys) ==
    IF Len(keys) = 0 THEN None
    ELSE LET value == dict_get(items, Head(keys))
             candidate == IF is_list(value) THEN first_transcription(value[1].v) ELSE None
         IN IF truthy(candidate) THEN candidate ELSE nested_transcription(items, Tail(keys))

\* _extract_transcription
extract_transcription(b) ==
    IF b.t = "str"
    THEN LET text == strip(b.v) IN IF Len(text) > 0 THEN Some(text) ELSE None
    ELSE IF b.t = "list"
    THEN first_transcription(b.v)
    ELSE IF b.t = "dict"
    THEN LET direct == first_string_value(b.v, TEXT_KEYS)
         IN IF truthy(direct) THEN direct ELSE nested_transcription(b.v, LIST_KEYS)
    ELSE None

RECURSIVE extract_language(_)

\* for item in value: candidate = _extract_language(item); if candidate: return candidate
RECURSIVE first_language(_)
first_language(parts) ==
    IF Len(parts) = 0 THEN None
    ELSE LET candidate == extract_language(Head(parts))
         IN IF truthy(candidate) THEN candidate ELSE first_language(Tail(parts))

RECURSIVE nested_language(_, _)
nested_language(items, keys) ==
    IF Len(keys) = 0 THEN None
    ELSE LET value == dict_get(items, Head(keys))
             candidate == IF is_list(value) THEN first_language(value[1].v) ELSE None
         IN IF truthy(candidate) THEN candidate ELSE nested_language(items, Tail(keys))

\* _extract_language: only a dict is searched
extract_language(b) ==
    IF b.t = "dict"
    THEN LET direct == first_string_value(b.v, LANGUAGE_KEYS)
         IN IF truthy(direct) THEN direct ELSE nested_language(b.v, LIST_KEYS)
    ELSE None

\* ------------------------------------------- speech adapters: HTTP calls
\* json.dumps, as far as the text of a response is needed: the characters of
\* the document a value was decoded from (a dict key is one piece)
RECURSIVE dumps(_)

RECURSIVE dumps_elements(_)
dumps_elements(elements) ==
    IF Len(elements) = 0 THEN <<>>
    ELSE dumps(Head(elements))
         \o (IF Len(elements) > 1 THEN <<",">> ELSE <<>>)
         \o dumps_elements(Tail(elements))

RECURSIVE dumps_items(_)
dumps_items(items) ==
    IF Len(items) = 0 THEN <<>>
    ELSE <<"\"", Head(items).key, "\"", ":">> \o dumps(Head(items).value)
         \o (IF Len(items) > 1 THEN <<",">> ELSE <<>>)
         \o dumps_items(Tail(items))

dumps(value) ==
    IF value.t = "str" THEN <<"\"">> \o value.v \o <<"\"">>
    ELSE IF value.t = "list" THEN <<"[">> \o dumps_elements(value.v) \o <<"]">>
    ELSE IF value.t = "dict" THEN <<"{">> \o dumps_items(value.v) \o <<"}">>
    ELSE IF value.t = "num" THEN <<"1">>
    ELSE <<"n", "u", "l", "l">>

\* the content of a response: a JSON document, or text that is not JSON
\* (json = FALSE; v is then the text as a str)
JsonContent(value) == [v |-> value, json |-> TRUE]

RawContent(chars) == [v |-> Str(chars), json |-> FALSE]

\* response.json(): the decoded value, or nothing when ValueError is raised
response_json(content) == IF content.json THEN Some(content.v) ELSE None

\* response.text (also response.content, the same bytes)
response_text(content) == IF content.json THEN dumps(content.v) ELSE content.v.v

\* an httpx response: request_id is the x-request-id header, content_type the
\* content-type header, each None when the header is absent
Response(status_code, request_id, content_type, content) ==
    [content |-> content, status_code |-> status_code,
     request_id |-> request_id, content_type |-> content_type]

NoResponse == Response(0, None, None, RawContent(<<>>))

\* what `await client.post(...)` ends with: a response, httpx.TimeoutException,
\* or another httpx.RequestError / OSError
Outcome(kind, response) == [kind |-> kind, response |-> response]

\* faulty variant of raise_for_status: only server errors raise
is_success_below_500(status_code) == status_code < 500

\* httpx Response.is_success, the test of raise_for_status
is_success(status_code) == 200 <= status_code /\ status_code <= 299

\* the three API errors; the last three fields belong to APIStatusError only
APIStatusError(status_code, request_id, text) ==
    [body |-> text, type |-> "APIStatusError",
     status_code |-> status_code, request_id |-> request_id]

APITimeoutError == [body |-> <<>>, type |-> "APITimeoutError", status_code |-> 0, request_id |-> None]

APIConnectionError == [body |-> <<>>, type |-> "APIConnectionError", status_code |-> 0, request_id |-> None]

\* headers.get("x-request-id", "")
header_or(header, default) == IF Len(header) > 0 THEN header[1] ELSE default

SpeechData(text, language) == [text |-> text, language |-> language]

SpeechEvent(request_id, alternatives) ==
    [type |-> "FINAL_TRANSCRIPT", request_id |-> request_id, alternatives |-> alternatives]

\* DrascomSttOptions, the fields of the request
DEFAULT_STT_MODEL == "Systran/faster-whisper-medium"

DrascomSttOptions(language) ==
    [language |-> language, model |-> DEFAULT_STT_MODEL, response_format |-> "json"]

\* DrascomTtsOptions with the defaults of DrascomTTS.__init__
DrascomTtsOptions ==
    [model |-> "speaches-ai/piper-en_GB-jenny_dioco-medium", response_format |-> "mp3",
     base_url |-> "http://speech", voice |-> "jenny_dioco", speed |-> "1.0", timeout |-> "30.0"]

\* `if model:` on a str | None argument: given and not empty
given_nonempty(arg) == Len(arg) > 0 /\ arg[1] # ""

\* the arguments of an update_options call, None for one that is not passed
UpdateArgs(model, voice, speed, response_format) ==
    [model |-> model, response_format |-> response_format, voice |-> voice, speed |-> speed]

\* faulty variant of update_options: a field that is not passed falls back to its default
update_options_resets(opts, args) ==
    [opts EXCEPT !.model = IF given_nonempty(args.model) THEN args.model[1]
                           ELSE DrascomTtsOptions.model,
                 !.voice = IF given_nonempty(args.voice) THEN args.voice[1]
                           ELSE DrascomTtsOptions.voice,
                 !.speed = IF Len(args.speed) > 0 THEN args.speed[1]
                           ELSE DrascomTtsOptions.speed,
                 !.response_format = IF given_nonempty(args.response_format)
                                     THEN args.response_format[1]
                                     ELSE DrascomTtsOptions.response_format]

\* DrascomTTS.update_options
update_options(opts, args) ==
    [opts EXCEPT !.model = IF given_nonempty(args.model) THEN args.model[1] ELSE @,
                 !.voice = IF given_nonempty(args.voice) THEN args.voice[1] ELSE @,
                 !.speed = IF Len(args.speed) > 0 THEN args.speed[1] ELSE @,
                 !.response_format = IF given_nonempty(args.response_format)
                                     THEN args.response_format[1] ELSE @]

\* no update_options call was made yet
NoUpdate == [tog |-> 0, args |-> UpdateArgs(None, None, None, None), before |-> DrascomTtsOptions]

\* --------------------------------------------------- agent.py: Assistant
\* a language tag is a Python string, kept as the sequence of its characters
TR == <<"t", "r">>

EN == <<"e", "n">>

\* str.lower on the characters that occur in the language tags
lower_char(c) ==
    CASE c = "T" -> "t" [] c = "R" -> "r" [] c = "E" -> "e" [] c = "N" -> "n"
      [] c = "D" -> "d" [] OTHER -> c

\* Assistant._normalize_language: language.strip().lower().replace("_", "-")
normalize_language(language) ==
    LET stripped == strip(language)
    IN [i \in 1..Len(stripped) |->
            IF lower_char(stripped[i]) = "_" THEN "-" ELSE lower_char(stripped[i])]

\* Assistant._is_turkish, of an optional string
is_turkish(language) ==
    IF Len(language) = 0 \/ Len(language[1]) = 0 THEN FALSE
    ELSE normalize_language(language[1]) \in
             {TR, <<"t", "r", "-", "t", "r">>, <<"t", "u", "r", "k", "i", "s", "h">>}

\* Assistant._coerce_language: None for None and "", "tr" for Turkish, "en" for
\* everything else
coerce_language(language) ==
    IF Len(language) = 0 \/ Len(language[1]) = 0 THEN None
    ELSE IF is_turkish(Some(normalize_language(language[1]))) THEN Some(TR)
    ELSE Some(EN)

\* Assistant._language_instructions
language_instructions(language) ==
    IF is_turkish(language) THEN "Respond in Turkish." ELSE "Respond in English."

\* Assistant.__init__
Assistant ==
    [last_language |-> None, active_language |-> None, instructions |-> ""]

\* Assistant.set_detected_language
set_detected_language(self, language) ==
    LET coerced == coerce_language(language)
    IN IF Len(coerced) = 0 THEN self ELSE [self EXCEPT !.last_language = coerced]

SPEECH_SERVER_TTS_MODEL_TR == "speaches-ai/piper-tr_TR-fahrettin-medium"

SPEECH_SERVER_TTS_VOICE_TR == "fahrettin"

\* the arguments on_user_turn_completed passes to update_options
turn_update_args(active_language) ==
    IF is_turkish(active_language)
    THEN UpdateArgs(Some(SPEECH_SERVER_TTS_MODEL_TR), Some(SPEECH_SERVER_TTS_VOICE_TR),
                    Some(DrascomTtsOptions.speed), Some(DrascomTtsOptions.response_format))
    ELSE UpdateArgs(Some(DrascomTtsOptions.model), Some(DrascomTtsOptions.voice),
                    Some(DrascomTtsOptions.speed), Some(DrascomTtsOptions.response_format))

\* Assistant.on_user_turn_completed: activity is FALSE when
\* _get_activity_or_raise raises RuntimeError; gives the assistant and the TTS
\* options afterwards, and whether update_options was called
on_user_turn_completed(self, opts, activity) ==
    IF Len(self.last_language) = 0 \/ self.last_language = self.active_language
    THEN [opts |-> opts, self |-> self, updated |-> FALSE]
    ELSE LET changed == [self EXCEPT !.active_language = self.last_language,
                                     !.instructions = language_instructions(self.last_language)]
         IN IF ~activity
            THEN [opts |-> opts, self |-> changed, updated |-> FALSE]
            ELSE [opts |-> update_options(opts, turn_update_args(changed.active_language)),
                  self |-> changed,
                  updated |-> TRUE]

\* no Assistant has heard anything
TurnOff ==
    /\ assistant = Assistant
    /\ heard = None
    /\ turns = 0

\* the JSON payload of the speech request
tts_payload(opts, input_text) ==
    [model |-> opts.model, response_format |-> opts.response_format, voice |-> opts.voice,
     speed |-> opts.speed, input |-> input_text]

\* faulty variant of the request: the hint of the caller goes first
stt_payload_hint_first(opts, language) ==
    [language |-> IF Len(language) > 0 THEN language
                  ELSE IF truthy(opts.language) THEN opts.language
                  ELSE None,
     model |-> opts.model,
     response_format |-> opts.response_format]

\* the form fields of the transcription request; language is None when not sent
stt_payload(opts, language) ==
    [language |-> IF truthy(opts.language) THEN opts.language
                  ELSE IF Len(language) > 0 THEN language
                  ELSE None,
     model |-> opts.model,
     response_format |-> opts.response_format]

\* a call: pc is "idle", "created" (the stream of synthesize exists, _run has
\* not begun), "awaiting" (suspended in client.post), "returned" or "raised";
\* posts counts the requests the call has sent; language is the caller's hint
\* (None for NOT_GIVEN); payload is None before the request is built;
\* input_text is the text of synthesize; opts_then is history: the options of
\* the TTS at the moment synthesize was called; updated_since is history:
\* update_options was called after synthesize was
NewCall(kind, language, payload) ==
    [pc |-> "idle", kind |-> kind, language |-> language, input_text |-> "", payload |-> payload,
     posts |-> 0, outcome |-> Outcome("none", NoResponse), result |-> None,
     error |-> None, chunks |-> <<>>, flushed |-> FALSE, opts_then |-> None,
     updated_since |-> FALSE]

\* await self._client.post(...): the request is sent and the call suspends
post(c) == [c EXCEPT !.pc = "awaiting", !.posts = @ + 1]

\* faulty variant of raise: the request is sent again
raise_error_retry(c, error) == post(c)

\* raise ...: the call ends with the error
raise_error(c, error) == [c EXCEPT !.pc = "raised", !.error = Some(error)]

\* the except clauses of _recognize_impl and of _run
api_error(outcome) ==
    IF outcome.kind = "response"
    THEN APIStatusError(outcome.response.status_code, outcome.response.request_id,
                        response_text(outcome.response.content))
    ELSE IF outcome.kind = "timeout" THEN APITimeoutError
    ELSE APIConnectionError

\* the try block fails: the post raised, or raise_for_status did
failed(outcome) == outcome.kind # "response" \/ ~is_success(outcome.response.status_code)

\* body = response.json(), or response.text on ValueError
decoded_body(content) ==
    LET decoded == response_json(content)
    IN IF Len(decoded) > 0 THEN decoded[1] ELSE Str(response_text(content))

\* `x or y` on two str | None
or_else(x, y) == IF truthy(x) THEN x ELSE y

\* faulty variant of the result: an empty transcript is an error
recognize_result_empty_raises(c, opts, response) ==
    raise_error(c, APIStatusError(response.status_code, response.request_id, <<>>))

\* _recognize_impl after a successful response
recognize_result(c, opts, response) ==
    LET b == decoded_body(response.content)
        transcript == extract_transcription(b)
        detected_language == extract_language(b)
        language_code == or_else(or_else(or_else(detected_language, opts.language), c.language),
                                 Some(<<>>))[1]
        request_id == header_or(response.request_id, "")
    IN IF ~truthy(transcript)
       THEN [c EXCEPT !.pc = "returned", !.result = Some(SpeechEvent(request_id, <<>>))]
       ELSE [c EXCEPT !.pc = "returned",
                      !.result = Some(SpeechEvent(request_id,
                                                  <<SpeechData(transcript[1], language_code)>>))]

\* _recognize_impl from the point where client.post ends
recognize_resume(c, opts, outcome) ==
    LET c1 == [c EXCEPT !.outcome = outcome]
    IN IF failed(outcome) THEN raise_error(c1, api_error(outcome))
       ELSE recognize_result(c1, opts, outcome.response)

\* faulty variant of the emission: the content is pushed twice
run_emit_twice(c, response) ==
    [c EXCEPT !.pc = "returned",
              !.chunks = @ \o << [data |-> response.content,
                                  request_id |-> header_or(response.request_id, ""),
                                  mime_type |-> header_or(response.content_type, "audio/mpeg")],
                                 [data |-> response.content,
                                  request_id |-> header_or(response.request_id, ""),
                                  mime_type |-> header_or(response.content_type, "audio/mpeg")] >>,
              !.flushed = TRUE]

\* _run after a successful response: initialize, push(response.content), flush
run_emit(c, response) ==
    [c EXCEPT !.pc = "returned",
              !.chunks = Append(@, [data |-> response.content,
                                    request_id |-> header_or(response.request_id, ""),
                                    mime_type |-> header_or(response.content_type, "audio/mpeg")]),
              !.flushed = TRUE]

\* _DrascomTTSSynthesizedStream._run from the point where client.post ends
run_resume(c, outcome) ==
    LET c1 == [c EXCEPT !.outcome = outcome]
    IN IF failed(outcome) THEN raise_error(c1, api_error(outcome))
       ELSE run_emit(c1, outcome.response)

\* no adapter is in use
HttpOff ==
    /\ body = Null
    /\ extracted = None
    /\ stt_opts = DrascomSttOptions(None)
    /\ tts_opts = DrascomTtsOptions
    /\ last_update = NoUpdate
    /\ call = NewCall("stt", None, None)

\* =================================== Part 5: legacy-agent/agent_status.py
ModelKeys == <<"stt", "tts", "llm">>

\* a ModelStatus entry (updated_at, a reading of time.time(), is left out)
ModelStatus(state, message) == [state |-> state, message |-> message]

\* the module-level _MODEL_STATUS
InitialModelStatus == [key \in {"stt", "tts", "llm"} |-> ModelStatus("pending", "waiting")]

\* all(entry["state"] == "ready" for entry in _MODEL_STATUS.values())
all_ready(status) == \A key \in DOMAIN status : status[key].state = "ready"

\* _refresh_ready_event: the event is set when all are ready, and never cleared
refresh_ready_event(status, event) == IF all_ready(status) THEN TRUE ELSE event

\* update_model_status, the assignments to the entry; message is None or a string
update_entry(status, key, state, message) ==
    IF key \notin DOMAIN status THEN status
    ELSE [status EXCEPT ![key] = ModelStatus(state, IF Len(message) > 0 /\ message[1] # ""
                                                    THEN message[1] ELSE @.message)]

RECURSIVE first_not_ready(_, _)
\* next((info["message"] for info in copied.values() if info["state"] != "ready"), None)
first_not_ready(status, keys) ==
    IF Len(keys) = 0 THEN None
    ELSE IF status[Head(keys)].state # "ready" THEN Some(status[Head(keys)].message)
    ELSE first_not_ready(status, Tail(keys))

\* get_status_snapshot (the timestamp is left out)
get_status_snapshot(status) ==
    [message |-> IF all_ready(status) THEN None ELSE first_not_ready(status, ModelKeys),
     ready |-> all_ready(status),
     models |-> status]

\* a caller of wait_until_ready: pc is "idle", "waiting" (suspended in
\* _READY_EVENT.wait()) or "returned"; timeout is None or a number of seconds;
\* history: ready_then tells whether all models were ready when it returned
Waiter(at, timeout, ret, ready_then) ==
    [pc |-> at, ret |-> ret, timeout |-> timeout, ready_then |-> ready_then]

\* agent_status as imported, nobody using it
StatusOff ==
    /\ model_status = InitialModelStatus
    /\ ready_event = FALSE
    /\ waiter = Waiter("idle", None, FALSE, FALSE)
    /\ snapshot = get_status_snapshot(InitialModelStatus)

\* ----------------------------------------------------------------- actions
VadInit ==
    /\ stream \in {NewStream(o) : o \in VadOptions}
    /\ pc = "loop"
    /\ input_closed = FALSE
    /\ trace = <<>>
    /\ RegStart
    /\ HttpOff
    /\ EntryOff /\ TurnOff /\ StatusOff

\* one iteration of the loop of _main_task on an audio frame
RecvFrame(frame) ==
    /\ pc = "loop"
    /\ ~input_closed
    /\ Len(trace) < MaxChunks
    /\ stream' = process_frame(stream, frame)
    /\ trace' = Append(trace, FrameStep(frame, stream, stream'))
    /\ UNCHANGED <<pc, input_closed>>
    /\ UNCHANGED notVadVars

\* one iteration of the loop of _main_task on a flush sentinel
RecvFlush ==
    /\ pc = "loop"
    /\ ~input_closed
    /\ Len(trace) < MaxChunks
    /\ stream' = on_flush(stream)
    /\ trace' = Append(trace, FlushStep(stream, stream'))
    /\ UNCHANGED <<pc, input_closed>>
    /\ UNCHANGED notVadVars

\* the producer closes the input channel (end_input / aclose)
EndInput ==
    /\ pc = "loop"
    /\ ~input_closed
    /\ input_closed' = TRUE
    /\ UNCHANGED <<stream, pc, trace>>
    /\ UNCHANGED notVadVars

\* the loop of _main_task ends on the closed channel and the finally block runs
MainTaskExit ==
    /\ pc = "loop"
    /\ input_closed
    /\ stream' = on_finally(stream)
    /\ trace' = Append(trace, CloseStep(stream, stream'))
    /\ pc' = "done"
    /\ UNCHANGED input_closed
    /\ UNCHANGED notVadVars

VadNext ==
    \/ \E frame \in Frames : RecvFrame(frame)
    \/ RecvFlush
    \/ EndInput
    \/ MainTaskExit

VadSpec == VadInit /\ [][VadNext]_vars

\* the event loop runs _main_task to its end once the channel is closed
VadFairSpec == VadSpec /\ WF_vars(MainTaskExit)

\* ------------------------------------------------- vocabulary of the claims
\* (all of it reads the history `trace`, not the fields of the stream)
Threshold == stream.threshold
MinSpeech == stream.min_speech_duration
SilenceTimeout == stream.silence_timeout

Steps == 1..Len(trace)

IsFrameStep(k) == trace[k].kind = "frame"

Voiced(k) == IsFrameStep(k) /\ frame_amplitude(trace[k].frame) >= Threshold

SilentFrame(k) == IsFrameStep(k) /\ frame_amplitude(trace[k].frame) < Threshold

EmitsStart(k) == \E i \in 1..Len(trace[k].out) : trace[k].out[i].type = START_OF_SPEECH

EmitsEnd(k) == \E i \in 1..Len(trace[k].out) : trace[k].out[i].type = END_OF_SPEECH

\* a segment is open when step k begins
OpenBefore(k) ==
    \E m \in 1..(k - 1) : EmitsStart(m) /\ \A j \in m..(k - 1) : ~EmitsEnd(j)

\* the last step before k that emitted an EndOfSpeech, 0 when there is none
LastEndBefore(k) == SetMax({0} \cup {j \in 1..(k - 1) : EmitsEnd(j)})

\* the last step before k that emitted a StartOfSpeech, 0 when there is none
LastStartBefore(k) == SetMax({0} \cup {j \in 1..(k - 1) : EmitsStart(j)})

\* the last voiced frame step up to k, 0 when there is none
LastVoicedUpTo(k) == SetMax({0} \cup {j \in 1..k : Voiced(j)})

RECURSIVE VoicedFrames(_, _)
\* the voiced frames among steps a..b, in arrival order
VoicedFrames(a, b) ==
    IF b < a
    THEN <<>>
    ELSE IF Voiced(b)
         THEN Append(VoicedFrames(a, b - 1), trace[b].frame)
         ELSE VoicedFrames(a, b - 1)

RECURSIVE SilentDuration(_, _)
\* the summed duration of the sub-threshold frames among steps a..b
SilentDuration(a, b) ==
    IF b < a
    THEN 0
    ELSE SilentDuration(a, b - 1)
         + (IF SilentFrame(b) THEN frame_duration_property(trace[b].frame) ELSE 0)

RECURSIVE SumDuration(_)
SumDuration(frames) ==
    IF frames = <<>>
    THEN 0
    ELSE frame_duration_property(Head(frames)) + SumDuration(Tail(frames))

NumEvents(type) == Cardinality({i \in 1..Len(stream.event_ch) : stream.event_ch[i].type = type})

\* ------------------------------------------------------------------ claims

\* C1: the events of one stream alternate StartOfSpeech, EndOfSpeech,
\* StartOfSpeech, ... beginning with StartOfSpeech, and a segment is open
\* exactly after an odd number of events.
C1_EventsAlternate ==
    /\ \A i \in 1..Len(stream.event_ch) :
           stream.event_ch[i].type = IF i % 2 = 1 THEN START_OF_SPEECH ELSE END_OF_SPEECH
    /\ stream.speech_started <=> (Len(stream.event_ch) % 2 = 1)

\* two complete segments, the second one ended by a flush
C1_Witness ==
    /\ Len(stream.event_ch) = 4
    /\ Len(trace) > 0
    /\ trace[Len(trace)].kind = "flush"
    /\ trace[Len(trace)].out # <<>>

\* C2: when every frame fed so far is below the threshold, no event has been
\* emitted, whatever flushes were fed and also after the stream was closed.
C2_SilenceEmitsNothing ==
    (\A k \in Steps : IsFrameStep(k) => SilentFrame(k)) => stream.event_ch = <<>>

\* a closed stream that was fed silent frames of non-zero amplitude and a flush
C2_Witness ==
    /\ pc = "done"
    /\ \A k \in Steps : IsFrameStep(k) => SilentFrame(k)
    /\ \E k \in Steps : IsFrameStep(k) /\ trace[k].frame = Silent100
    /\ \E k \in Steps : trace[k].kind = "flush"
    /\ Len(trace) >= 4

\* C3: while no segment is open, the voiced frame k at which the summed
\* duration of the voiced frames received since the last EndOfSpeech (or the
\* start of the stream) first reaches min_speech_duration emits exactly one
\* StartOfSpeech whose frames are exactly those voiced frames up to and
\* including k; no other step emits a StartOfSpeech.
C3_StartOnFrameK ==
    \A k \in Steps :
        /\ EmitsStart(k) => Voiced(k) /\ ~OpenBefore(k)
        /\ (Voiced(k) /\ ~OpenBefore(k)) =>
               LET j == LastEndBefore(k)
               IN /\ SumDuration(VoicedFrames(j + 1, k - 1)) < MinSpeech
                  /\ IF SumDuration(VoicedFrames(j + 1, k)) >= MinSpeech
                     THEN /\ Len(trace[k].out) = 1
                          /\ trace[k].out[1].type = START_OF_SPEECH
                          /\ trace[k].out[1].frames = VoicedFrames(j + 1, k)
                     ELSE trace[k].out = <<>>

\* 50 ms frames, min_speech_duration 100 ms: nothing on the first voiced frame,
\* the start on the second one, with a silent frame and a flush in between
C3_Witness ==
    /\ MinSpeech = 100
    /\ Len(trace) = 4
    /\ trace[1] = [frame |-> Voiced50, kind |-> "frame", out |-> <<>>]
    /\ trace[2].kind = "frame" /\ trace[2].frame = Silent50
    /\ trace[3].kind = "flush"
    /\ trace[4].kind = "frame" /\ trace[4].frame = Voiced50
    /\ Len(trace[4].out) = 1
    /\ trace[4].out[1].frames = <<Voiced50, Voiced50>>


\* C4 as stated: while a segment is open, the sub-threshold frame at which the
\* summed duration of ALL sub-threshold frames since the StartOfSpeech reaches
\* silence_timeout emits the EndOfSpeech.
C4_AsStated ==
    \A k \in Steps :
        (OpenBefore(k) /\ SilentFrame(k)
            /\ SilentDuration(LastStartBefore(k) + 1, k) >= SilenceTimeout)
        => EmitsEnd(k)

\* C4 (amended): while a segment is open, a sub-threshold frame emits exactly
\* one EndOfSpeech when the summed duration of the sub-threshold frames
\* received since the last voiced frame reaches silence_timeout, and emits
\* nothing otherwise; a frame emits an EndOfSpeech in no other case.
C4_EndOnUninterruptedSilence ==
    \A k \in Steps :
        /\ (IsFrameStep(k) /\ EmitsEnd(k)) => (OpenBefore(k) /\ SilentFrame(k))
        /\ (OpenBefore(k) /\ SilentFrame(k)) =>
               IF SilentDuration(LastVoicedUpTo(k) + 1, k) >= SilenceTimeout
               THEN /\ Len(trace[k].out) = 1
                    /\ trace[k].out[1].type = END_OF_SPEECH
               ELSE trace[k].out = <<>>

\* a segment with a silent gap, a voiced frame and then the silence that ends it
C4_Witness ==
    \E k \in Steps :
        /\ SilentFrame(k)
        /\ EmitsEnd(k)
        /\ SilentDuration(LastStartBefore(k) + 1, k) > SilentDuration(LastVoicedUpTo(k) + 1, k)

\* C5: every EndOfSpeech carries as speech_duration the summed duration of the
\* voiced frames received since the previous EndOfSpeech (the candidates folded
\* in at the start and the voiced frames received while speaking).
C5_SpeechDurationIsVoicedSum ==
    \A k \in Steps :
        EmitsEnd(k) =>
            trace[k].out[1].speech_duration
                = SumDuration(VoicedFrames(LastEndBefore(k) + 1, k))

\* an end whose segment holds two candidates, a silent gap and a later voiced frame
C5_Witness ==
    \E k \in Steps :
        /\ EmitsEnd(k)
        /\ trace[k].out[1].speech_duration >= 150
        /\ LastStartBefore(k) >= 2
        /\ \E g \in (LastStartBefore(k) + 1)..(k - 1) : SilentFrame(g) /\ g < LastVoicedUpTo(k)

\* C6 as stated: an EndOfSpeech emitted on a frame (by the silence timeout)
\* carries silence_duration = silence_timeout.
C6_AsStated ==
    \A k \in Steps :
        (IsFrameStep(k) /\ EmitsEnd(k)) => trace[k].out[1].silence_duration = SilenceTimeout

\* C6 (amended): an EndOfSpeech emitted on a frame carries as silence_duration
\* the summed duration of the sub-threshold frames received since the last
\* voiced frame, which is at least silence_timeout and was below it before the
\* frame that triggered the end.
C6_SilenceDurationIsAccumulated ==
    \A k \in Steps :
        (IsFrameStep(k) /\ EmitsEnd(k)) =>
            /\ trace[k].out[1].silence_duration = SilentDuration(LastVoicedUpTo(k) + 1, k)
            /\ trace[k].out[1].silence_duration >= SilenceTimeout
            /\ trace[k].out[1].silence_duration - frame_duration_property(trace[k].frame)
                   < SilenceTimeout

\* a timeout end whose silence_duration exceeds silence_timeout
C6_Witness ==
    \E k \in Steps :
        /\ IsFrameStep(k)
        /\ EmitsEnd(k)
        /\ trace[k].out[1].silence_duration > SilenceTimeout


\* the engine is Idle: no open segment, no candidates, all accumulators zero
Idle(s) ==
    /\ ~s.speech_started
    /\ s.speech_frames = <<>>
    /\ s.pending_frames = <<>>
    /\ s.speech_duration = 0
    /\ s.pending_duration = 0
    /\ s.silence_accumulated = 0

\* C7: a flush received while a segment is open emits exactly one EndOfSpeech
\* carrying the voiced duration of the segment and the trailing silence
\* accumulated so far (still below silence_timeout) and leaves the engine
\* Idle; a flush received while no segment is open emits nothing.
C7_FlushEndsOpenSegment ==
    \A k \in Steps :
        trace[k].kind = "flush" =>
            IF OpenBefore(k)
            THEN /\ Len(trace[k].out) = 1
                 /\ trace[k].out[1].type = END_OF_SPEECH
                 /\ trace[k].out[1].speech_duration
                        = SumDuration(VoicedFrames(LastEndBefore(k) + 1, k))
                 /\ trace[k].out[1].silence_duration
                        = SilentDuration(LastVoicedUpTo(k) + 1, k)
                 /\ trace[k].out[1].silence_duration < SilenceTimeout
                 /\ (k = Len(trace) => Idle(stream))
            ELSE trace[k].out = <<>>

\* a flush that ended a segment with some trailing silence, after an idle flush
C7_Witness ==
    /\ Len(trace) = 4
    /\ trace[1] = [kind |-> "flush", out |-> <<>>]
    /\ trace[4].kind = "flush"
    /\ Len(trace[4].out) = 1
    /\ trace[4].out[1].silence_duration = 50
    /\ trace[4].out[1].speech_duration > 0

\* C8: once the input is closed the stream terminates with every
\* StartOfSpeech matched by exactly one EndOfSpeech: an open segment is ended
\* by the close, an already ended one is not ended again.
C8_CloseEndsEverySegment ==
    [](input_closed =>
           <>(/\ pc = "done"
              /\ ~stream.speech_started
              /\ NumEvents(START_OF_SPEECH) = NumEvents(END_OF_SPEECH)))

\* a closed stream: one segment ended by the silence timeout, the next by the close
C8_Witness ==
    /\ pc = "done"
    /\ NumEvents(END_OF_SPEECH) = 2
    /\ trace[Len(trace)].kind = "close"
    /\ Len(trace[Len(trace)].out) = 1
    /\ \E k \in Steps : SilentFrame(k) /\ EmitsEnd(k)

\* the frame of step k is part of no emitted event and of no buffer
InNoSegment(k) ==
    /\ \A i \in 1..Len(stream.event_ch) :
           \A j \in 1..Len(stream.event_ch[i].frames) :
               stream.event_ch[i].frames[j] # trace[k].frame
    /\ \A j \in 1..Len(stream.pending_frames) : stream.pending_frames[j] # trace[k].frame
    /\ \A j \in 1..Len(stream.speech_frames) : stream.speech_frames[j] # trace[k].frame

C10_AsStated ==
    \A i \in 2..Len(stream.event_ch) :
        stream.event_ch[i].samples_index > stream.event_ch[i - 1].samples_index


\* ============================================ Part 2: actions of the registry
\* no VAD stream is running
VadOff ==
    /\ stream = NewStream(CHOOSE o \in VadOptions : o.min_speech_duration = DEFAULT_VAD_MIN_SPEECH)
    /\ pc = "done"
    /\ input_closed = TRUE
    /\ trace = <<>>

Op(op, key, ret, locked) ==
    [key |-> key, ret |-> ret, op |-> op, locked |-> locked, tog |-> 1 - last_op.tog]

\* ---- whole operations (no other caller is active)
\* await registry.register(...)
Register(room_name, user_identity, agent_session) ==
    LET session == register_build(room_name, user_identity, UserName(user_identity),
                                  agent_session, "agent", "None", now)
        after == registry_register(Registry(sessions, greeting_times), session)
    IN /\ lock_free(room_lock)
       /\ sessions' = after.sessions
       /\ greeting_times' = after.greeting_times
       /\ latest' = [latest EXCEPT ![room_name] = Some(session)]
       /\ last_op' = Op("register", room_name, Some(session), TRUE)
       /\ UNCHANGED <<room_lock, now, tasks, greeted>>
       /\ UNCHANGED notRegVars

\* await registry.unregister(room_name)
Unregister(room_name) ==
    LET popped == unregister_pop(sessions, room_name)
        after == registry_unregister(Registry(sessions, greeting_times), room_name)
    IN /\ lock_free(room_lock)
       /\ sessions' = after.sessions
       /\ greeting_times' = after.greeting_times
       /\ latest' = [latest EXCEPT ![room_name] = None]
       /\ last_op' = Op("unregister", room_name, popped.ret, TRUE)
       /\ UNCHANGED <<room_lock, now, tasks, greeted>>
       /\ UNCHANGED notRegVars

\* registry.record_greeting(user_identity)
RecordGreeting(user_identity) ==
    LET after == registry_record_greeting(Registry(sessions, greeting_times), user_identity, now)
    IN /\ sessions' = after.sessions
       /\ greeting_times' = after.greeting_times
       /\ greeted' = [greeted EXCEPT ![user_identity] = Some(now)]
       /\ last_op' = Op("record_greeting", user_identity, None, FALSE)
       /\ UNCHANGED <<room_lock, now, tasks, latest>>
    /\ UNCHANGED notRegVars

\* a second passes on the clock read by datetime.now()
Tick ==
    /\ now < MaxTime
    /\ now' = now + 1
    /\ last_op' = Op("tick", "", None, FALSE)
    /\ UNCHANGED <<sessions, greeting_times, room_lock, tasks, latest, greeted>>
    /\ UNCHANGED notRegVars

RegInit == RegStart /\ VadOff /\ HttpOff /\ EntryOff /\ TurnOff /\ StatusOff

RegNext ==
    \/ \E r \in Rooms, u \in Identities, h \in Handles : Register(r, u, h)
    \/ \E r \in Rooms : Unregister(r)
    \/ \E u \in Identities : RecordGreeting(u)
    \/ Tick

RegSpec == RegInit /\ [][RegNext]_vars

\* --------------------------------------------------- claims on the registry

\* C11: the registry holds at most one record per room, get(room) is the record
\* returned by the latest register(room, ...) not followed by unregister(room),
\* absent when there is none, and the count is the number of rooms that have one.
C11_OneRecordPerRoom ==
    /\ \A i, j \in 1..Len(sessions) : sessions[i].key = sessions[j].key => i = j
    /\ \A r \in Rooms : get(sessions, r) = latest[r]
    /\ active_count(sessions) = Cardinality({r \in Rooms : latest[r] # None})
    /\ Len(list_sessions(sessions)) = active_count(sessions)

\* a second register for a room replaced the record of the first: one record, the new one
C11_Witness ==
    /\ last_op.op = "register"
    /\ active_count(sessions) = 1
    /\ get(sessions, "roomA") = last_op.ret
    /\ last_op.ret[1].user_identity = "u2"
    /\ last_op.ret[1].agent_session = 2
    /\ last_op.ret[1].created_at = 1

\* C12: unregister(room) returns the record get(room) gave before and leaves
\* get(room) absent, leaves every other room's record, the order of the records
\* and the greeting ledger unchanged, and on a room without record returns
\* nothing and changes nothing (a second unregister in a row is such a call).
C12_UnregisterRemovesItsRoomOnly ==
    [][(last_op' # last_op /\ last_op'.op = "unregister") =>
           LET room_name == last_op'.key
           IN /\ last_op'.ret = get(sessions, room_name)
              /\ get(sessions', room_name) = None
              /\ \A r \in Rooms \ {room_name} : get(sessions', r) = get(sessions, r)
              /\ active_count(sessions')
                     = active_count(sessions) - (IF get(sessions, room_name) = None THEN 0 ELSE 1)
              /\ get(sessions, room_name) = None => sessions' = sessions
              /\ (last_op.op = "unregister" /\ last_op.key = room_name) =>
                     (last_op'.ret = None /\ sessions' = sessions)
              /\ greeting_times' = greeting_times]_vars

\* unregister returned the record of roomA, which is gone, while roomB keeps its record
C12_Witness ==
    /\ last_op.op = "unregister"
    /\ last_op.key = "roomA"
    /\ last_op.ret # None
    /\ last_op.ret[1].room_name = "roomA"
    /\ get(sessions, "roomA") = None
    /\ latest["roomB"] # None
    /\ get(sessions, "roomB") = latest["roomB"]

\* C13 as stated: right after record_greeting(identity) should_greet(identity,
\* min_seconds) is false, for every min_seconds.
C13_AsStated ==
    last_op.op = "record_greeting" =>
        \A m \in MinSecondsChoices : ~should_greet(greeting_times, last_op.key, m, now)

\* C13 (amended): should_greet(identity, min_seconds) is true exactly when
\* record_greeting(identity) was never called or at least min_seconds have
\* passed since its last call (other identities play no part); so right after
\* record_greeting(identity) it is false for every positive min_seconds.
C13_GreetAfterMinSeconds ==
    /\ \A u \in Identities :
           \A m \in MinSecondsChoices :
               should_greet(greeting_times, u, m, now)
                   <=> (greeted[u] = None \/ now - greeted[u][1] >= m)
    /\ last_op.op = "record_greeting" =>
           \A m \in MinSecondsChoices :
               m > 0 => ~should_greet(greeting_times, last_op.key, m, now)

\* u1 was greeted two seconds ago and u2 just now: u1 is due again at
\* min_seconds 2 (the boundary) but not at the default, u2 is not due
C13_Witness ==
    /\ greeted["u1"] = Some(0)
    /\ greeted["u2"] = Some(2)
    /\ now = 2
    /\ last_op.op = "record_greeting"
    /\ should_greet(greeting_times, "u1", 2, now)
    /\ ~should_greet(greeting_times, "u1", DEFAULT_MIN_SECONDS, now)
    /\ ~should_greet(greeting_times, "u2", 1, now)


\* ---- the same operations step by step, with concurrent callers and a reader
\* a task calls register: it stops first at `async with self._room_lock`
CallRegister(t, room_name, user_identity) ==
    /\ tasks[t].pc = "idle"
    /\ tasks' = [tasks EXCEPT ![t] = [pc |-> "reg_lock", identity |-> user_identity,
                                      session |-> None, room |-> room_name]]
    /\ UNCHANGED <<sessions, greeting_times, room_lock, now, latest, greeted, last_op>>
    /\ UNCHANGED notRegVars

\* a task calls unregister
CallUnregister(t, room_name) ==
    /\ tasks[t].pc = "idle"
    /\ tasks' = [tasks EXCEPT ![t] = [pc |-> "unreg_lock", identity |-> "",
                                      session |-> None, room |-> room_name]]
    /\ UNCHANGED <<sessions, greeting_times, room_lock, now, latest, greeted, last_op>>
    /\ UNCHANGED notRegVars

\* async with self._room_lock: the lock is acquired
AcquireLock(t) ==
    /\ tasks[t].pc \in {"reg_lock", "unreg_lock"}
    /\ lock_free(room_lock)
    /\ room_lock' = t
    /\ tasks' = [tasks EXCEPT ![t].pc = IF @ = "reg_lock" THEN "reg_build" ELSE "unreg_pop"]
    /\ UNCHANGED <<sessions, greeting_times, now, latest, greeted, last_op>>
    /\ UNCHANGED notRegVars

\* register: session = SessionInfo(...); the task's own handle is its agent_session
RegBuild(t) ==
    /\ tasks[t].pc = "reg_build"
    /\ tasks' = [tasks EXCEPT ![t].pc = "reg_insert",
                              ![t].session =
                                  Some(register_build(tasks[t].room, tasks[t].identity,
                                                      UserName(tasks[t].identity), t, "agent",
                                                      "None", now))]
    /\ UNCHANGED <<sessions, greeting_times, room_lock, now, latest, greeted, last_op>>
    /\ UNCHANGED notRegVars

\* register: self._sessions[room_name] = session
RegInsert(t) ==
    /\ tasks[t].pc = "reg_insert"
    /\ sessions' = register_insert(sessions, tasks[t].session[1])
    /\ latest' = [latest EXCEPT ![tasks[t].room] = tasks[t].session]
    /\ last_op' = Op("register", tasks[t].room, tasks[t].session, room_lock = t)
    /\ tasks' = [tasks EXCEPT ![t].pc = "reg_release"]
    /\ UNCHANGED <<greeting_times, room_lock, now, greeted>>
    /\ UNCHANGED notRegVars

\* unregister: session = self._sessions.pop(room_name, None)
UnregPop(t) ==
    LET popped == unregister_pop(sessions, tasks[t].room)
    IN /\ tasks[t].pc = "unreg_pop"
       /\ sessions' = popped.dict
       /\ latest' = [latest EXCEPT ![tasks[t].room] = None]
       /\ last_op' = Op("unregister", tasks[t].room, popped.ret, room_lock = t)
       /\ tasks' = [tasks EXCEPT ![t].pc = "unreg_release", ![t].session = popped.ret]
       /\ UNCHANGED <<greeting_times, room_lock, now, greeted>>
       /\ UNCHANGED notRegVars

\* the end of the `async with` block: the lock is released and the call returns
ReleaseLock(t) ==
    /\ tasks[t].pc \in {"reg_release", "unreg_release"}
    /\ room_lock' = 0
    /\ tasks' = [tasks EXCEPT ![t] = IdleTask]
    /\ UNCHANGED <<sessions, greeting_times, now, latest, greeted, last_op>>
    /\ UNCHANGED notRegVars

\* a task calls record_greeting: a plain method, one step, no lock
TaskRecordGreeting(t, user_identity) ==
    /\ tasks[t].pc = "idle"
    /\ greeting_times' = record_greeting(greeting_times, user_identity, now)
    /\ greeted' = [greeted EXCEPT ![user_identity] = Some(now)]
    /\ last_op' = Op("record_greeting", user_identity, None, room_lock = t)
    /\ UNCHANGED <<sessions, room_lock, now, tasks, latest>>
    /\ UNCHANGED notRegVars

\* the API server's thread reads the registry
ReadGet(room_name) ==
    /\ last_op' = Op("get", room_name, get(sessions, room_name), FALSE)
    /\ UNCHANGED <<sessions, greeting_times, room_lock, now, tasks, latest, greeted>>
    /\ UNCHANGED notRegVars

ReadGetByUser(user_identity) ==
    /\ last_op' = Op("get_by_user", user_identity, get_by_user(sessions, user_identity), FALSE)
    /\ UNCHANGED <<sessions, greeting_times, room_lock, now, tasks, latest, greeted>>
    /\ UNCHANGED notRegVars

ReadList ==
    /\ last_op' = Op("list_sessions", "", list_sessions(sessions), FALSE)
    /\ UNCHANGED <<sessions, greeting_times, room_lock, now, tasks, latest, greeted>>
    /\ UNCHANGED notRegVars

RegConcNext ==
    \/ \E t \in Tasks, r \in Rooms, u \in Identities : CallRegister(t, r, u)
    \/ \E t \in Tasks, r \in Rooms : CallUnregister(t, r)
    \/ \E t \in Tasks : AcquireLock(t)
    \/ \E t \in Tasks : RegBuild(t)
    \/ \E t \in Tasks : RegInsert(t)
    \/ \E t \in Tasks : UnregPop(t)
    \/ \E t \in Tasks : ReleaseLock(t)
    \/ \E t \in Tasks, u \in Identities : TaskRecordGreeting(t, u)
    \/ \E r \in Rooms : ReadGet(r)
    \/ \E u \in Identities : ReadGetByUser(u)
    \/ ReadList

RegConcSpec == RegInit /\ [][RegConcNext]_vars

\* the positions of a task at which it is inside `async with self._room_lock`
InLockedBlock(t) == tasks[t].pc \in {"reg_build", "reg_insert", "reg_release", "unreg_pop", "unreg_release"}

WellFormed(session) ==
    \E r \in Rooms, u \in Identities, h \in Handles \cup Tasks, t \in 0..now :
        session = SessionInfo(r, u, UserName(u), t, h, "agent", "{}")

\* C15: every record a read can see - in the dict and in the result of the last
\* get, get_by_user or list - is complete and stored under its own room, and
\* get(room) is either absent or the record of the latest insertion for the room.
C15_ReadsSeeCompleteRecords ==
    /\ \A i \in 1..Len(sessions) :
           /\ WellFormed(sessions[i].value)
           /\ sessions[i].value.room_name = sessions[i].key
    /\ \A r \in Rooms : get(sessions, r) = latest[r]
    /\ last_op.op \in {"get", "get_by_user", "list_sessions"} =>
           \A i \in 1..Len(last_op.ret) : WellFormed(last_op.ret[i])
    /\ Len(list_sessions(sessions)) = active_count(sessions)

\* a get that ran while the registering task still held the lock saw its record
C15_Witness ==
    /\ last_op.op = "get"
    /\ last_op.ret # None
    /\ \E t \in Tasks : tasks[t].pc = "reg_release" /\ tasks[t].session = last_op.ret
    /\ room_lock # 0

\* ---- composing response bodies and extracting from them
MaxBuild == 3

\* the scalar values a body is composed from
Leaves ==
    << Str(<<" ">>), Str(<<"h", "i">>), Str(<<" ", "o", "k", "\n">>), Null >>

\* the values a further field of a dict may hold
FieldValues == << Str(<<"t", "r">>), Str(<<" ">>) >>

WrapKeys == {"text", "transcript", "transcription", "result", "output",
             "segments", "alternatives", "data", "other"}

FieldKeys == {"text", "output", "language", "lang", "detected_language"}

\* the number of composing steps a body is the result of
RECURSIVE Built(_)

RECURSIVE BuiltAll(_)
BuiltAll(values) == IF Len(values) = 0 THEN 0 ELSE Built(Head(values)) + BuiltAll(Tail(values))

Built(b) ==
    IF b.t = "list" THEN 1 + BuiltAll(b.v)
    ELSE IF b.t = "dict" THEN Len(b.v) + BuiltAll(dict_values(b.v))
    ELSE 0

BodyInit ==
    /\ \E i \in DOMAIN Leaves : body = Leaves[i]
    /\ extracted = None
    /\ stt_opts = DrascomSttOptions(None)
    /\ tts_opts = DrascomTtsOptions
    /\ last_update = NoUpdate
    /\ call = NewCall("stt", None, None)
    /\ VadOff
    /\ RegStart
    /\ EntryOff /\ TurnOff /\ StatusOff

\* the server puts the body into a list: alone, after an empty string, or
\* before another text
WrapList(how) ==
    /\ extracted = None
    /\ Built(body) < MaxBuild
    /\ body' = IF how = "alone" THEN List(<<body>>)
               ELSE IF how = "after_empty" THEN List(<<Str(<<>>), body>>)
               ELSE List(<<body, Str(<<"z", "z">>)>>)
    /\ UNCHANGED <<extracted, stt_opts, tts_opts, last_update, call>>
    /\ UNCHANGED notHttpVars

\* the server puts the body into a dict under a key
WrapDict(k) ==
    /\ extracted = None
    /\ Built(body) < MaxBuild
    /\ body' = Dict(<<Item(k, body)>>)
    /\ UNCHANGED <<extracted, stt_opts, tts_opts, last_update, call>>
    /\ UNCHANGED notHttpVars

\* the server adds a field to the dict
AddField(k, value) ==
    /\ extracted = None
    /\ Built(body) < MaxBuild
    /\ body.t = "dict"
    /\ k \notin DictKeys(body.v)
    /\ body' = Dict(dict_set(body.v, k, value))
    /\ UNCHANGED <<extracted, stt_opts, tts_opts, last_update, call>>
    /\ UNCHANGED notHttpVars

\* transcript = _extract_transcription(body); detected_language = _extract_language(body)
Extract ==
    /\ extracted = None
    /\ extracted' = Some([transcript |-> extract_transcription(body),
                          detected_language |-> extract_language(body)])
    /\ UNCHANGED <<body, stt_opts, tts_opts, last_update, call>>
    /\ UNCHANGED notHttpVars

BodyNext ==
    \/ \E how \in {"alone", "after_empty", "before_text"} : WrapList(how)
    \/ \E k \in WrapKeys : WrapDict(k)
    \/ \E k \in FieldKeys, i \in DOMAIN FieldValues : AddField(k, FieldValues[i])
    \/ Extract

BodySpec == BodyInit /\ [][BodyNext]_vars

\* ---- claims about the extractors
\* a string without its leading and trailing whitespace: the part from the
\* first to the last character that is not whitespace
Trimmed(chars) ==
    LET solid == {i \in 1..Len(chars) : ~IsSpace(chars[i])}
    IN IF solid = {} THEN <<>>
       ELSE SubSeq(chars, CHOOSE i \in solid : \A j \in solid : i <= j,
                          CHOOSE i \in solid : \A j \in solid : j <= i)

\* every text a search for the given direct keys can return, in the order of
\* the search: on a dict the string values of the direct keys, then the
\* candidates of the elements of the list-valued keys segments, alternatives,
\* data; on a list the candidates of its elements; a string itself when bare
\* strings count
RECURSIVE Candidates(_, _, _)

RECURSIVE CandidatesOfAll(_, _, _)
CandidatesOfAll(values, keys, bare) ==
    IF Len(values) = 0 THEN <<>>
    ELSE Candidates(Head(values), keys, bare) \o CandidatesOfAll(Tail(values), keys, bare)

RECURSIVE DirectCandidates(_, _)
DirectCandidates(items, keys) ==
    IF Len(keys) = 0 THEN <<>>
    ELSE LET value == dict_get(items, Head(keys))
         IN (IF Len(value) > 0 /\ value[1].t = "str" THEN <<Trimmed(value[1].v)>> ELSE <<>>)
            \o DirectCandidates(items, Tail(keys))

RECURSIVE NestedCandidates(_, _, _, _)
NestedCandidates(items, list_keys, keys, bare) ==
    IF Len(list_keys) = 0 THEN <<>>
    ELSE LET value == dict_get(items, Head(list_keys))
         IN (IF Len(value) > 0 /\ value[1].t = "list"
             THEN CandidatesOfAll(value[1].v, keys, bare) ELSE <<>>)
            \o NestedCandidates(items, Tail(list_keys), keys, bare)

Candidates(b, keys, bare) ==
    IF b.t = "str" THEN (IF bare THEN <<Trimmed(b.v)>> ELSE <<>>)
    ELSE IF b.t = "list" THEN CandidatesOfAll(b.v, keys, bare)
    ELSE IF b.t = "dict"
    THEN DirectCandidates(b.v, keys) \o NestedCandidates(b.v, LIST_KEYS, keys, bare)
    ELSE <<>>

\* the first non-empty text of a sequence of texts, None when there is none
FirstNonEmpty(texts) ==
    LET filled == {i \in 1..Len(texts) : Len(texts[i]) > 0}
    IN IF filled = {} THEN None
       ELSE Some(texts[CHOOSE i \in filled : \A j \in filled : i <= j])

\* two JSON values are the same value
RECURSIVE SameJson(_, _)
SameJson(a, b) ==
    /\ a.t = b.t
    /\ Len(a.v) = Len(b.v)
    /\ \A i \in 1..Len(a.v) :
           IF a.t = "list" THEN SameJson(a.v[i], b.v[i])
           ELSE IF a.t = "dict"
           THEN a.v[i].key = b.v[i].key /\ SameJson(a.v[i].value, b.v[i].value)
           ELSE a.v[i] = b.v[i]

\* {"segments": [{"text": "hi"}]}
BodySegmentsTextHi ==
    Dict(<<Item("segments", List(<<Dict(<<Item("text", Str(<<"h", "i">>))>>)>>))>>)

\* ["", {"transcript": " ok\n"}]
BodyEmptyThenTranscriptOk ==
    List(<<Str(<<>>), Dict(<<Item("transcript", Str(<<" ", "o", "k", "\n">>))>>)>>)

\* C16: for every body, transcript extraction returns the first non-empty
\* trimmed text in the order of the search (direct keys before any descent,
\* then the list-valued keys, lists element by element), and None when there
\* is no such text; the two bodies of the examples give "hi" and "ok".
C16_FirstNonEmptyTextInOrder ==
    /\ extract_transcription(body) = FirstNonEmpty(Candidates(body, TEXT_KEYS, TRUE))
    /\ Len(extracted) > 0 =>
           extracted[1].transcript = FirstNonEmpty(Candidates(body, TEXT_KEYS, TRUE))
    /\ SameJson(body, BodySegmentsTextHi) => extract_transcription(body) = Some(<<"h", "i">>)
    /\ SameJson(body, BodyEmptyThenTranscriptOk) => extract_transcription(body) = Some(<<"o", "k">>)

\* the extraction ran on ["", {"transcript": " ok\n"}] and gave "ok"
C16_Witness ==
    /\ SameJson(body, BodyEmptyThenTranscriptOk)
    /\ Len(extracted) > 0
    /\ extracted[1].transcript = Some(<<"o", "k">>)

\* C17 as stated: language extraction returns the first non-empty value under
\* language, lang, detected_language in the traversal order of the transcript
\* search, lists included.
C17_AsStated ==
    extract_language(body) = FirstNonEmpty(Candidates(body, LANGUAGE_KEYS, FALSE))

\* ---- recognize and synthesize calls against every transport outcome
\* the contents a server answers with
SampleContents ==
    << JsonContent(BodySegmentsTextHi),
       JsonContent(BodyEmptyThenTranscriptOk),
       JsonContent(Dict(<<Item("other", Str(<<"h", "i">>))>>)),
       JsonContent(Dict(<<Item("text", Str(<<" ", "\n">>))>>)),
       JsonContent(Number),
       JsonContent(Dict(<<Item("text", Str(<<"h", "i">>)), Item("language", Str(<<"t", "r">>))>>)),
       JsonContent(List(<<Dict(<<Item("text", Str(<<"h", "i">>)),
                                 Item("language", Str(<<"t", "r">>))>>)>>)),
       RawContent(<<>>),
       RawContent(<<"h", "i">>) >>

StatusCodes == {200, 201, 404, 500}

RequestIds == <<None, Some("req-1")>>

ContentTypes == <<None, Some("audio/wav")>>

\* DrascomSTT(language=...): None or "en"
SttLanguages == <<None, Some(<<>>), Some(<<"e", "n">>)>>

\* the language argument of recognize: NOT_GIVEN or "de"
LanguageHints == <<None, Some(<<>>), Some(<<"d", "e">>)>>

InputTexts == {"hello", "merhaba"}

HttpInit ==
    /\ body = Null
    /\ extracted = None
    /\ \E i \in DOMAIN SttLanguages : stt_opts = DrascomSttOptions(SttLanguages[i])
    /\ tts_opts = DrascomTtsOptions
    /\ last_update = NoUpdate
    /\ call = NewCall("stt", None, None)
    /\ VadOff
    /\ RegStart
    /\ EntryOff /\ TurnOff /\ StatusOff

\* _recognize_impl up to `await self._client.post(...)`
Recognize(language) ==
    /\ call.pc \notin {"created", "awaiting"}
    /\ call' = post(NewCall("stt", language, Some(stt_payload(stt_opts, language))))
    /\ UNCHANGED <<body, extracted, stt_opts, tts_opts, last_update>>
    /\ UNCHANGED notHttpVars

\* _recognize_impl from the end of the post to its return or raise
RecognizeResume(outcome) ==
    /\ call.kind = "stt"
    /\ call.pc = "awaiting"
    /\ call' = recognize_resume(call, stt_opts, outcome)
    /\ UNCHANGED <<body, extracted, stt_opts, tts_opts, last_update>>
    /\ UNCHANGED notHttpVars

\* synthesize(text): the stream object is made; its _run begins later, when
\* the event loop gets to it
Synthesize(input_text) ==
    /\ call.pc \notin {"created", "awaiting"}
    /\ call' = [NewCall("tts", None, None) EXCEPT !.pc = "created", !.input_text = input_text,
                                                   !.opts_then = Some(tts_opts)]
    /\ UNCHANGED <<body, extracted, stt_opts, tts_opts, last_update>>
    /\ UNCHANGED notHttpVars

\* _run up to `await self._tts._client.post(...)`: the payload is built from
\* self._tts._opts as they are now
RunStart ==
    /\ call.kind = "tts"
    /\ call.pc = "created"
    /\ call' = post([call EXCEPT !.payload = Some(tts_payload(tts_opts, call.input_text))])
    /\ UNCHANGED <<body, extracted, stt_opts, tts_opts, last_update>>
    /\ UNCHANGED notHttpVars

\* _run from the end of the post to its return or raise
RunResume(outcome) ==
    /\ call.kind = "tts"
    /\ call.pc = "awaiting"
    /\ call' = run_resume(call, outcome)
    /\ UNCHANGED <<body, extracted, stt_opts, tts_opts, last_update>>
    /\ UNCHANGED notHttpVars

HttpNext ==
    \/ \E i \in DOMAIN LanguageHints : Recognize(LanguageHints[i])
    \/ \E input_text \in InputTexts : Synthesize(input_text)
    \/ RunStart
    \/ \E status_code \in StatusCodes, r \in DOMAIN RequestIds, t \in DOMAIN ContentTypes,
          i \in DOMAIN SampleContents :
           RecognizeResume(Outcome("response", Response(status_code, RequestIds[r],
                                                         ContentTypes[t], SampleContents[i])))
    \/ \E kind \in {"timeout", "error"} : RecognizeResume(Outcome(kind, NoResponse))
    \/ \E status_code \in StatusCodes, r \in DOMAIN RequestIds, t \in DOMAIN ContentTypes,
          i \in DOMAIN SampleContents :
           RunResume(Outcome("response", Response(status_code, RequestIds[r],
                                                   ContentTypes[t], SampleContents[i])))
    \/ \E kind \in {"timeout", "error"} : RunResume(Outcome(kind, NoResponse))

HttpSpec == HttpInit /\ [][HttpNext]_vars

\* ---- claims about the calls
\* the call has ended, by return or by raise
Ended == call.pc \in {"returned", "raised"}

\* the post ended with a response of status 2xx
Answered2xx ==
    /\ call.outcome.kind = "response"
    /\ call.outcome.response.status_code \in 200..299

\* the post ended with a response of another status
AnsweredNon2xx ==
    /\ call.outcome.kind = "response"
    /\ call.outcome.response.status_code \notin 200..299

\* the transcript the answered content holds: of the decoded document, or of
\* the text itself when the content is not JSON
TranscriptOf(content) == FirstNonEmpty(Candidates(content.v, TEXT_KEYS, TRUE))

\* C18: a recognize call answered with 2xx whose content holds no transcript
\* returns a final result with no alternatives and raises nothing; one whose
\* content holds a transcript returns it as the only alternative.
C18_EmptyTranscriptIsAResult ==
    (call.kind = "stt" /\ Ended /\ Answered2xx) =>
        /\ call.pc = "returned"
        /\ call.error = None
        /\ Len(call.result) = 1
        /\ call.result[1].type = "FINAL_TRANSCRIPT"
        /\ LET transcript == TranscriptOf(call.outcome.response.content)
           IN IF transcript = None
              THEN Len(call.result[1].alternatives) = 0
              ELSE /\ Len(call.result[1].alternatives) = 1
                   /\ call.result[1].alternatives[1].text = transcript[1]

\* recognize returned without alternatives for {"text": " \n"}
C18_Witness ==
    /\ call.kind = "stt"
    /\ call.pc = "returned"
    /\ Answered2xx
    /\ call.outcome.response.content.json
    /\ SameJson(call.outcome.response.content.v, Dict(<<Item("text", Str(<<" ", "\n">>))>>))
    /\ Len(call.result[1].alternatives) = 0

\* C19: for recognize and for synthesize, a response of a status other than
\* 2xx raises APIStatusError with the status code, the x-request-id header (if
\* any) and the text of the response; a timeout raises APITimeoutError; any
\* other transport failure raises APIConnectionError; a 2xx response returns;
\* a call that raised has produced no result and no audio chunk.
C19_ErrorFollowsTransportOutcome ==
    Ended =>
        /\ AnsweredNon2xx =>
               /\ call.pc = "raised"
               /\ call.error[1].type = "APIStatusError"
               /\ call.error[1].status_code = call.outcome.response.status_code
               /\ call.error[1].request_id = call.outcome.response.request_id
               /\ LET content == call.outcome.response.content
                  IN call.error[1].body = IF content.json THEN dumps(content.v) ELSE content.v.v
        /\ call.outcome.kind = "timeout" =>
               call.pc = "raised" /\ call.error[1].type = "APITimeoutError"
        /\ call.outcome.kind = "error" =>
               call.pc = "raised" /\ call.error[1].type = "APIConnectionError"
        /\ Answered2xx => call.pc = "returned" /\ call.error = None
        /\ call.pc = "raised" =>
               call.result = None /\ Len(call.chunks) = 0 /\ ~call.flushed

\* synthesize answered with HTTP 500 and a request id raised APIStatusError(500)
C19_Witness ==
    /\ call.kind = "tts"
    /\ call.pc = "raised"
    /\ call.outcome.kind = "response"
    /\ call.outcome.response.status_code = 500
    /\ call.error[1].type = "APIStatusError"
    /\ call.error[1].status_code = 500
    /\ call.error[1].request_id = Some("req-1")
    /\ Len(call.chunks) = 0

\* C20: a call that has started has sent exactly one request, whether it is
\* still waiting, has returned or has raised; a failure ends the call with the
\* error and without another request.
C20_OneRequestPerCall ==
    /\ call.pc = "idle" => call.posts = 0
    /\ call.pc \in {"awaiting", "returned", "raised"} => call.posts = 1
    /\ (Ended /\ (call.outcome.kind # "response" \/ AnsweredNon2xx)) =>
           call.pc = "raised" /\ Len(call.error) = 1

\* recognize raised after a timeout, having sent one request
C20_Witness ==
    /\ call.kind = "stt"
    /\ call.pc = "raised"
    /\ call.outcome.kind = "timeout"
    /\ call.posts = 1

\* C21: a synthesize call answered with 2xx has emitted exactly one chunk, which
\* holds the whole content of the response and carries its content-type
\* (audio/mpeg when the header is absent), and has flushed the emitter; a call
\* that is still waiting or that raised has emitted no chunk and has not flushed.
C21_OneChunkThenFlush ==
    call.kind = "tts" =>
        /\ (Ended /\ Answered2xx) =>
               /\ call.pc = "returned"
               /\ Len(call.chunks) = 1
               /\ call.chunks[1].data.json = call.outcome.response.content.json
               /\ SameJson(call.chunks[1].data.v, call.outcome.response.content.v)
               /\ call.chunks[1].mime_type =
                      IF call.outcome.response.content_type = None THEN "audio/mpeg"
                      ELSE call.outcome.response.content_type[1]
               /\ call.flushed
        /\ call.pc \in {"awaiting", "raised"} => Len(call.chunks) = 0 /\ ~call.flushed
        /\ (Ended /\ ~Answered2xx) => call.pc = "raised"

\* synthesize answered with 200 and content-type audio/wav emitted one wav chunk
C21_Witness ==
    /\ call.kind = "tts"
    /\ call.pc = "returned"
    /\ call.outcome.response.status_code = 200
    /\ call.outcome.response.content_type = Some("audio/wav")
    /\ Len(call.chunks) = 1
    /\ call.chunks[1].mime_type = "audio/wav"
    /\ call.flushed

\* ---- synthesize calls and update_options
\* the update_options calls made: voice only, an empty voice, model only, a
\* speed of zero, format only, all four fields back to the defaults, nothing
UpdateChoices ==
    << UpdateArgs(None, Some("x"), None, None),
       UpdateArgs(None, Some(""), None, None),
       UpdateArgs(Some("m2"), None, None, None),
       UpdateArgs(None, None, Some("0.0"), None),
       UpdateArgs(None, None, None, Some("wav")),
       UpdateArgs(Some(DrascomTtsOptions.model), Some(DrascomTtsOptions.voice),
                  Some(DrascomTtsOptions.speed), Some(DrascomTtsOptions.response_format)),
       UpdateArgs(None, None, None, None) >>

\* DrascomTTS.update_options, called at any moment
UpdateOptions(args) ==
    /\ tts_opts' = update_options(tts_opts, args)
    /\ last_update' = [tog |-> 1 - last_update.tog, args |-> args, before |-> tts_opts]
    /\ call' = IF call.kind = "tts" /\ call.pc # "idle"
               THEN [call EXCEPT !.updated_since = TRUE] ELSE call
    /\ UNCHANGED <<body, extracted, stt_opts>>
    /\ UNCHANGED notHttpVars

TtsInit == HttpOff /\ VadOff /\ RegStart /\ EntryOff /\ TurnOff /\ StatusOff

TtsNext ==
    \/ \E i \in DOMAIN UpdateChoices : UpdateOptions(UpdateChoices[i])
    \/ \E input_text \in InputTexts : Synthesize(input_text)
    \/ RunStart
    \/ RunResume(Outcome("response", Response(200, None, None, RawContent(<<"a", "u", "d">>))))
    \/ RunResume(Outcome("timeout", NoResponse))

TtsSpec == TtsInit /\ [][TtsNext]_vars

\* the request of the call has been built
RequestBuilt == call.kind = "tts" /\ call.pc \in {"awaiting", "returned", "raised"}

\* C22 as stated: update_options replaces every field that is passed and
\* leaves the others as they were.
C22_AsStated ==
    LET args == last_update.args
        before == last_update.before
    IN /\ tts_opts.model = IF args.model # None THEN args.model[1] ELSE before.model
       /\ tts_opts.voice = IF args.voice # None THEN args.voice[1] ELSE before.voice
       /\ tts_opts.speed = IF args.speed # None THEN args.speed[1] ELSE before.speed
       /\ tts_opts.response_format =
              IF args.response_format # None THEN args.response_format[1]
              ELSE before.response_format

\* C22 (amended): update_options replaces model, voice and response format when
\* a non-empty value is passed and speed when any value is passed, and leaves
\* every other field (base URL and timeout included) as it was; the request of
\* a synthesize call made after the update carries the options as the update
\* left them.
C22_UpdateReplacesNonEmptyFields ==
    LET args == last_update.args
        before == last_update.before
        Passed(arg) == arg # None /\ arg # Some("")
    IN /\ tts_opts.model = IF Passed(args.model) THEN args.model[1] ELSE before.model
       /\ tts_opts.voice = IF Passed(args.voice) THEN args.voice[1] ELSE before.voice
       /\ tts_opts.speed = IF args.speed # None THEN args.speed[1] ELSE before.speed
       /\ tts_opts.response_format =
              IF Passed(args.response_format) THEN args.response_format[1]
              ELSE before.response_format
       /\ tts_opts.base_url = before.base_url
       /\ tts_opts.timeout = before.timeout
       /\ (RequestBuilt /\ ~call.updated_since) =>
              /\ call.payload[1].model = tts_opts.model
              /\ call.payload[1].voice = tts_opts.voice
              /\ call.payload[1].speed = tts_opts.speed
              /\ call.payload[1].response_format = tts_opts.response_format
              /\ call.payload[1].input = call.input_text

\* after update_options(voice="x") a synthesize call was made: its request has
\* voice x with the model, speed and format configured before
C22_Witness ==
    /\ last_update.args.voice = Some("x")
    /\ last_update.args.model = None
    /\ RequestBuilt
    /\ ~call.updated_since
    /\ call.payload[1].voice = "x"
    /\ call.payload[1].model = last_update.before.model
    /\ call.payload[1].speed = last_update.before.speed
    /\ call.payload[1].response_format = last_update.before.response_format
    /\ last_update.before.voice # "x"

\* C23 as stated: the request of a synthesize call carries the model, voice,
\* speed and response format that were configured when synthesize was called.
C23_AsStated ==
    RequestBuilt =>
        /\ call.payload[1].model = call.opts_then[1].model
        /\ call.payload[1].voice = call.opts_then[1].voice
        /\ call.payload[1].speed = call.opts_then[1].speed
        /\ call.payload[1].response_format = call.opts_then[1].response_format

\* ---- further claims about the VAD stream
\* the step that has just been taken, 0 before the first
LastStep == Len(trace)

\* C24: a voiced frame leaves the trailing-silence accumulator at zero, and
\* while speaking the accumulator is the summed duration of the sub-threshold
\* frames since the last voiced frame; a frame emits an EndOfSpeech only at the
\* end of an uninterrupted run of sub-threshold frames that follows a voiced
\* frame and whose durations first reach silence_timeout at that frame; a
\* sub-threshold frame whose run is still shorter ends nothing.
C24_VoicedFrameResetsSilence ==
    /\ (LastStep > 0 /\ Voiced(LastStep)) => stream.silence_accumulated = 0
    /\ stream.speech_started =>
           stream.silence_accumulated = SilentDuration(LastVoicedUpTo(LastStep) + 1, LastStep)
    /\ \A k \in Steps :
           LET v == LastVoicedUpTo(k)
           IN /\ (IsFrameStep(k) /\ EmitsEnd(k)) =>
                     /\ v >= 1
                     /\ \A j \in (v + 1)..k : SilentFrame(j)
                     /\ SilentDuration(v + 1, k) >= SilenceTimeout
                     /\ SilentDuration(v + 1, k - 1) < SilenceTimeout
              /\ (SilentFrame(k) /\ SilentDuration(v + 1, k) < SilenceTimeout) =>
                     ~EmitsEnd(k)

\* a segment is still open after two silent gaps, separated by a voiced frame,
\* that together last as long as silence_timeout
C24_Witness ==
    /\ stream.speech_started
    /\ LastStep > 0
    /\ SilentFrame(LastStep)
    /\ SilentDuration(LastStartBefore(LastStep + 1) + 1, LastStep) >= SilenceTimeout
    /\ \A k \in Steps : ~EmitsEnd(k)
    /\ stream.silence_accumulated > 0

\* C25: a step that processes a sub-threshold frame while no segment is open
\* leaves the candidate buffer, the candidate duration, the segment buffer,
\* the speaking flag and the trailing silence as they were and emits no event.
C25_SilentFrameDroppedWhenNotSpeaking ==
    [][(/\ Len(trace') = Len(trace) + 1
        /\ trace'[Len(trace')].kind = "frame"
        /\ frame_amplitude(trace'[Len(trace')].frame) < stream.threshold
        /\ ~stream.speech_started)
       => /\ stream'.pending_frames = stream.pending_frames
          /\ stream'.pending_duration = stream.pending_duration
          /\ stream'.speech_frames = stream.speech_frames
          /\ stream'.speech_started = stream.speech_started
          /\ stream'.silence_accumulated = stream.silence_accumulated
          /\ Len(stream'.event_ch) = Len(stream.event_ch)]_vars

\* a StartOfSpeech whose candidates are separated by a silent frame: the
\* candidate before the silent frame still counts
C25_Witness ==
    \E k \in Steps :
        /\ EmitsStart(k)
        /\ \E j \in (LastEndBefore(k) + 1)..(k - 1) :
               /\ SilentFrame(j)
               /\ \E i \in (LastEndBefore(k) + 1)..(j - 1) : Voiced(i)
        /\ Len(trace[k].out[1].frames) >= 2

\* C26: right after a step that emitted an EndOfSpeech the stream is not
\* speaking and its segment buffer, candidate buffer, speech duration,
\* candidate duration and trailing silence are empty or zero; every
\* StartOfSpeech carries exactly the voiced frames received since the previous
\* EndOfSpeech, and their durations reach min_speech_duration only with the
\* frame that emits it.
C26_IdleAfterEnd ==
    /\ (LastStep > 0 /\ EmitsEnd(LastStep)) =>
           /\ ~stream.speech_started
           /\ stream.speech_frames = <<>>
           /\ stream.pending_frames = <<>>
           /\ stream.speech_duration = 0
           /\ stream.pending_duration = 0
           /\ stream.silence_accumulated = 0
    /\ \A k \in Steps :
           EmitsStart(k) =>
               /\ Voiced(k)
               /\ trace[k].out[1].frames = VoicedFrames(LastEndBefore(k) + 1, k)
               /\ SumDuration(VoicedFrames(LastEndBefore(k) + 1, k)) >= MinSpeech
               /\ SumDuration(VoicedFrames(LastEndBefore(k) + 1, k - 1)) < MinSpeech

\* a second segment starts after the first one has ended
C26_Witness ==
    \E k \in Steps :
        /\ EmitsStart(k)
        /\ LastEndBefore(k) > 0
        /\ \E j \in 1..(LastEndBefore(k) - 1) : Voiced(j)

\* ---- a further claim on the registry
\* C27: a register or unregister step leaves the greeting ledger as it was, so
\* should_greet answers the same for every identity and every min_seconds
\* before and after it; a record_greeting step leaves the session records as
\* they were.
C27_LedgerIndependentOfSessions ==
    [][(last_op' # last_op) =>
          /\ last_op'.op \in {"register", "unregister"} =>
                 /\ greeting_times' = greeting_times
                 /\ \A u \in Identities, m \in MinSecondsChoices :
                        should_greet(greeting_times', u, m, now')
                            = should_greet(greeting_times, u, m, now)
          /\ last_op'.op = "record_greeting" =>
                 /\ sessions' = sessions
                 /\ list_sessions(sessions') = list_sessions(sessions)]_vars

\* a user who was greeted has had a session unregistered and is still not
\* greeted again
C27_Witness ==
    /\ last_op.op = "unregister"
    /\ last_op.ret # None
    /\ greeted[last_op.ret[1].user_identity] # None
    /\ ~should_greet(greeting_times, last_op.ret[1].user_identity, DEFAULT_MIN_SECONDS, now)
    /\ get_by_user(sessions, last_op.ret[1].user_identity) = None

\* ---- entrypoint: sessions starting, greeting and being cleaned up
\* The jobs are tasks of one event loop, and neither register nor unregister
\* suspends when the lock is free (the locked blocks contain no await), so
\* each runs within the step that calls it.
EntryInit ==
    /\ \E r1, r2 \in Rooms, u1, u2 \in Identities :
           jobs = [j \in Jobs |-> IF j = 1 THEN Job("starting", r1, u1)
                                   ELSE Job("starting", r2, u2)]
    /\ RegStart
    /\ VadOff
    /\ HttpOff
    /\ TurnOff /\ StatusOff

\* `await session.start(...)` returns: await registry.register(...),
\* ctx.room.on("disconnected", on_disconnect), and registry.should_greet(...)
\* up to `await session.generate_reply(...)`
SessionStarted(j) ==
    LET job == jobs[j]
        session == register_build(job.room, job.identity, UserName(job.identity), j, "agent",
                                  "None", now)
        after == registry_register(Registry(sessions, greeting_times), session)
        greet == should_greet(after.greeting_times, job.identity, DEFAULT_MIN_SECONDS, now)
    IN /\ job.pc = "starting"
       /\ lock_free(room_lock)
       /\ sessions' = after.sessions
       /\ greeting_times' = after.greeting_times
       /\ latest' = [latest EXCEPT ![job.room] = Some(session)]
       /\ last_op' = Op("register", job.room, Some(session), TRUE)
       /\ jobs' = [jobs EXCEPT ![j].pc = IF greet THEN "greeting" ELSE "done",
                               ![j].handler = TRUE,
                               ![j].greets = greet,
                               ![j].record = Some(session)]
       /\ UNCHANGED <<room_lock, now, tasks, greeted>>
       /\ UNCHANGED notEntryVars

\* `await session.generate_reply(...)` returns: registry.record_greeting(...)
GreetingDone(j) ==
    LET job == jobs[j]
        after == registry_record_greeting(Registry(sessions, greeting_times), job.identity, now)
    IN /\ job.pc = "greeting"
       /\ sessions' = after.sessions
       /\ greeting_times' = after.greeting_times
       /\ greeted' = [greeted EXCEPT ![job.identity] = Some(now)]
       /\ last_op' = Op("record_greeting", job.identity, None, FALSE)
       /\ jobs' = [jobs EXCEPT ![j].pc = "done"]
       /\ UNCHANGED <<room_lock, now, tasks, latest>>
       /\ UNCHANGED notEntryVars

\* the room of the job emits "disconnected": on_disconnect runs if it is
\* attached and makes the unregister task; otherwise nobody hears the event
Disconnect(j) ==
    /\ jobs[j].pc # "none"
    /\ ~jobs[j].disconnected
    /\ jobs' = [jobs EXCEPT ![j].disconnected = TRUE,
                            ![j].cleanup = IF jobs[j].handler THEN "scheduled" ELSE @]
    /\ UNCHANGED regVars
    /\ UNCHANGED notEntryVars

\* the task made by on_disconnect runs: registry.unregister(room_name)
CleanupRun(j) ==
    LET job == jobs[j]
        popped == unregister_pop(sessions, job.room)
        after == registry_unregister(Registry(sessions, greeting_times), job.room)
    IN /\ job.cleanup = "scheduled"
       /\ lock_free(room_lock)
       /\ sessions' = after.sessions
       /\ greeting_times' = after.greeting_times
       /\ latest' = [latest EXCEPT ![job.room] = None]
       /\ last_op' = Op("unregister", job.room, popped.ret, TRUE)
       /\ jobs' = [jobs EXCEPT ![j].cleanup = "done", ![j].removed = popped.ret]
       /\ UNCHANGED <<room_lock, now, tasks, greeted>>
       /\ UNCHANGED notEntryVars

EntryNext ==
    \/ \E j \in Jobs : SessionStarted(j)
    \/ \E j \in Jobs : GreetingDone(j)
    \/ \E j \in Jobs : Disconnect(j)
    \/ \E j \in Jobs : CleanupRun(j)

EntrySpec == EntryInit /\ [][EntryNext]_vars

\* the event loop runs every task that is ready
EntryFairSpec ==
    /\ EntrySpec
    /\ \A j \in Jobs : /\ WF_vars(SessionStarted(j))
                       /\ WF_vars(GreetingDone(j))
                       /\ WF_vars(CleanupRun(j))

\* the registry holds the record that job j registered
Holds(j) == Len(jobs[j].record) > 0 /\ get(sessions, jobs[j].room) = jobs[j].record

\* C28 as stated: of the sessions of one identity at most one generates the
\* greeting within the debounce window (the clock stands still here).
C28_AsStated ==
    \A u \in Identities : Cardinality({j \in Jobs : jobs[j].identity = u /\ jobs[j].greets}) <= 1

\* C29 as stated: the unregister made by a job's disconnect handler removes
\* nothing but the record that job registered.
C29_AsStated ==
    \A j \in Jobs : Len(jobs[j].removed) > 0 => jobs[j].removed = jobs[j].record

\* C30 as stated: a record whose room has disconnected is eventually removed
\* from the registry.
C30_AsStated ==
    \A j \in Jobs : (jobs[j].disconnected /\ Holds(j)) ~> ~Holds(j)

\* ---- the Assistant: transcriptions and completed user turns
MaxTurns == 3

\* the languages a transcription event can carry: None, "", and tags with
\* capitals, underscores and white space around them
HeardLanguages ==
    {None, Some(<<>>), Some(TR), Some(EN), Some(<<"T", "R", "_", "t", "r">>),
     Some(<<" ", "e", "n", "-", "U", "S">>), Some(<<"d", "e">>),
     Some(<<"t", "u", "r", "k", "i", "s", "h", "\n">>)}

TurnInit == TurnOff /\ HttpOff /\ VadOff /\ RegStart /\ EntryOff /\ StatusOff

\* _on_user_transcribed(ev): a final transcription sets the detected language
UserTranscribed(language, is_final) ==
    /\ assistant' = IF is_final THEN set_detected_language(assistant, language) ELSE assistant
    /\ heard' = language
    /\ UNCHANGED turns
    /\ UNCHANGED httpVars
    /\ UNCHANGED notTurnVars

\* Assistant.on_user_turn_completed, with the activity available or not
UserTurnCompleted(activity) ==
    LET after == on_user_turn_completed(assistant, tts_opts, activity)
    IN /\ turns < MaxTurns
       /\ assistant' = after.self
       /\ tts_opts' = after.opts
       /\ last_update' = IF after.updated
                         THEN [tog |-> 1 - last_update.tog,
                               args |-> turn_update_args(after.self.active_language),
                               before |-> tts_opts]
                         ELSE last_update
       /\ turns' = turns + 1
       /\ UNCHANGED heard
       /\ UNCHANGED <<body, extracted, stt_opts, call>>
       /\ UNCHANGED notTurnVars

TurnNext ==
    \/ \E language \in HeardLanguages, is_final \in BOOLEAN : UserTranscribed(language, is_final)
    \/ \E activity \in BOOLEAN : UserTurnCompleted(activity)

TurnSpec == TurnInit /\ [][TurnNext]_vars

\* C31 as stated: the model and the voice of the TTS options are the Turkish
\* ones whenever the active language is Turkish and the default ones whenever
\* it is English.
C31_AsStated ==
    /\ assistant.active_language = Some(TR) =>
           /\ tts_opts.model = SPEECH_SERVER_TTS_MODEL_TR
           /\ tts_opts.voice = SPEECH_SERVER_TTS_VOICE_TR
    /\ assistant.active_language = Some(EN) =>
           /\ tts_opts.model = DrascomTtsOptions.model
           /\ tts_opts.voice = DrascomTtsOptions.voice

\* ---- further claims on the voice-activity detector (VadSpec)
RECURSIVE SamplesBefore(_)
\* the samples of all frames consumed before step k
SamplesBefore(k) ==
    IF k <= 1
    THEN 0
    ELSE SamplesBefore(k - 1)
         + (IF IsFrameStep(k - 1) THEN trace[k - 1].frame.samples_per_channel ELSE 0)

\* C32: the frames of every EndOfSpeech are exactly the voiced frames received
\* since the previous EndOfSpeech, in arrival order (the candidates folded in at
\* the start, then the voiced frames received while speaking); none of them
\* is below the threshold.
C32_EndFramesAreTheVoicedFrames ==
    \A k \in Steps :
        EmitsEnd(k) =>
            /\ trace[k].out[1].frames = VoicedFrames(LastEndBefore(k) + 1, k)
            /\ \A i \in 1..Len(trace[k].out[1].frames) :
                   frame_amplitude(trace[k].out[1].frames[i]) >= Threshold

\* an end whose segment had a sub-threshold frame between two voiced frames
C32_Witness ==
    \E k \in Steps :
        /\ EmitsEnd(k)
        /\ \E a, b, c \in (LastEndBefore(k) + 1)..k :
               a < b /\ b < c /\ Voiced(a) /\ SilentFrame(b) /\ Voiced(c)
        /\ Len(trace[k].out[1].frames) = 2

\* C33: a StartOfSpeech carries as sample index the samples of all frames
\* consumed before the frame that triggered it, and the matching EndOfSpeech
\* carries the sample index of its StartOfSpeech.
C33_StartIndexIsSamplesBeforeTrigger ==
    \A k \in Steps :
        /\ EmitsStart(k) => trace[k].out[1].samples_index = SamplesBefore(k)
        /\ EmitsEnd(k) =>
               /\ LastStartBefore(k) > 0
               /\ trace[k].out[1].samples_index
                      = trace[LastStartBefore(k)].out[1].samples_index

\* a start triggered by the second candidate, after a silent frame, and its end
\* two frames later: the index is neither that of the first candidate nor that
\* of the end
C33_Witness ==
    \E k \in Steps :
        /\ EmitsEnd(k)
        /\ LastStartBefore(k) > 0
        /\ trace[LastStartBefore(k)].out[1].samples_index > 0
        /\ Len(trace[LastStartBefore(k)].out[1].frames) = 2
        /\ trace[k].out[1].samples_index < SamplesBefore(k)
        /\ trace[k].out[1].samples_index = SamplesBefore(LastStartBefore(k))

\* the detector under every configuration, a minimum of zero included
VadWideInit ==
    /\ stream \in {NewStream(o) : o \in VadOptions \cup {VadOptionsNoMinimum}}
    /\ pc = "loop"
    /\ input_closed = FALSE
    /\ trace = <<>>
    /\ RegStart
    /\ HttpOff
    /\ EntryOff
    /\ TurnOff /\ StatusOff

VadWideSpec == VadWideInit /\ [][VadNext]_vars

\* while speaking there are no candidates; while not speaking there is no segment
BuffersExclusive ==
    /\ stream.speech_started =>
           /\ stream.pending_frames = <<>>
           /\ stream.pending_duration = 0
    /\ ~stream.speech_started =>
           /\ stream.speech_frames = <<>>
           /\ stream.speech_duration = 0
           /\ stream.silence_accumulated = 0

FrameProcessed == \E k \in Steps : IsFrameStep(k)

\* C34 as stated: the buffers exclude each other, and after a frame has been
\* processed the candidate duration is below min_speech_duration.
C34_AsStated ==
    /\ BuffersExclusive
    /\ FrameProcessed => stream.pending_duration < stream.min_speech_duration

\* C34: the buffers exclude each other; the candidate duration is below
\* min_speech_duration when that is positive, and is zero when it is not.
C34_CandidatesBelowPositiveMinimum ==
    /\ BuffersExclusive
    /\ stream.min_speech_duration > 0 => stream.pending_duration < stream.min_speech_duration
    /\ stream.min_speech_duration <= 0 => stream.pending_duration = 0

\* a segment has ended and a new candidate is buffered, short of the minimum
C34_Witness ==
    /\ ~stream.speech_started
    /\ Len(stream.pending_frames) > 0
    /\ stream.pending_duration > 0
    /\ NumEvents(END_OF_SPEECH) > 0

\* C35: a flush received while candidates are buffered and no segment is open
\* changes nothing in the stream and emits no event, and the frames of every
\* StartOfSpeech are the voiced frames received since the previous
\* EndOfSpeech, those received before such a flush included.
C35_FlushKeepsCandidates ==
    /\ [][(/\ Len(trace') = Len(trace) + 1
           /\ trace'[Len(trace')].kind = "flush"
           /\ ~stream.speech_started
           /\ Len(stream.pending_frames) > 0)
          => stream' = stream]_vars
    /\ [](\A k \in Steps :
              EmitsStart(k) =>
                  trace[k].out[1].frames = VoicedFrames(LastEndBefore(k) + 1, k))

\* a candidate, then a flush, then the voiced frame that completes the
\* minimum: the StartOfSpeech holds both frames
C35_Witness ==
    \E k \in Steps :
        /\ EmitsStart(k)
        /\ Len(trace[k].out[1].frames) = 2
        /\ \E a, b \in (LastEndBefore(k) + 1)..k :
               a < b /\ Voiced(a) /\ trace[b].kind = "flush"

\* ---- agent_status: status updates, snapshots and a waiter
ModelStates == {"pending", "ready", "error"}

StatusKeys == {"stt", "tts", "llm", "vad"}

StatusMessages == {None, Some(""), Some("m")}

StatusInit ==
    /\ StatusOff
    /\ TurnOff
    /\ HttpOff
    /\ VadOff
    /\ RegStart
    /\ EntryOff

\* update_model_status(key, state, message)
UpdateModelStatus(key, state, message) ==
    /\ model_status' = update_entry(model_status, key, state, message)
    /\ ready_event' = IF key \in DOMAIN model_status
                      THEN refresh_ready_event(model_status', ready_event)
                      ELSE ready_event
    /\ UNCHANGED <<waiter, snapshot>>
    /\ UNCHANGED notStatusVars

\* get_status_snapshot()
GetStatusSnapshot ==
    /\ snapshot' = get_status_snapshot(model_status)
    /\ UNCHANGED <<model_status, ready_event, waiter>>
    /\ UNCHANGED notStatusVars

\* wait_until_ready(timeout) up to its return or to `await ... _READY_EVENT.wait()`
WaitUntilReady(timeout) ==
    /\ waiter.pc # "waiting"
    /\ waiter' = IF all_ready(model_status)
                 THEN Waiter("returned", timeout, TRUE, TRUE)
                 ELSE Waiter("waiting", timeout, FALSE, FALSE)
    /\ UNCHANGED <<model_status, ready_event, snapshot>>
    /\ UNCHANGED notStatusVars

\* _READY_EVENT.wait() ends because the event is set: return True
WaitReturns ==
    /\ waiter.pc = "waiting"
    /\ ready_event
    /\ waiter' = Waiter("returned", waiter.timeout, TRUE, all_ready(model_status))
    /\ UNCHANGED <<model_status, ready_event, snapshot>>
    /\ UNCHANGED notStatusVars

\* asyncio.wait_for times out: return False
WaitTimesOut ==
    /\ waiter.pc = "waiting"
    /\ ~ready_event
    /\ Len(waiter.timeout) > 0
    /\ waiter' = Waiter("returned", waiter.timeout, FALSE, all_ready(model_status))
    /\ UNCHANGED <<model_status, ready_event, snapshot>>
    /\ UNCHANGED notStatusVars

StatusNext ==
    \/ \E key \in StatusKeys, state \in ModelStates, message \in StatusMessages :
           UpdateModelStatus(key, state, message)
    \/ GetStatusSnapshot
    \/ \E timeout \in {None, Some(5)} : WaitUntilReady(timeout)
    \/ WaitReturns
    \/ WaitTimesOut

StatusSpec == StatusInit /\ [][StatusNext]_vars

\* C36 as stated: wait_until_ready returns True only when all three models are
\* ready at the moment it returns, and a snapshot reports ready exactly when
\* all three models in it are ready.
C36_AsStated ==
    /\ (waiter.pc = "returned" /\ waiter.ret) => waiter.ready_then
    /\ snapshot.ready <=> all_ready(snapshot.models)

\* C37: recognize sends the configured language when one is configured (not
\* empty), otherwise the hint of the caller, otherwise none; the language
\* reported with a transcript is the first non-empty of the language detected
\* in the response, the configured language and the hint, else the empty string.
C37_LanguagePreference ==
    (call.kind = "stt" /\ call.pc # "idle") =>
        LET configured == stt_opts.language
            hint == call.language
            Given(x) == Len(x) > 0 /\ Len(x[1]) > 0
            detected == extract_language(decoded_body(call.outcome.response.content))
        IN /\ Len(call.payload) = 1
           /\ call.payload[1].language = (IF Given(configured) THEN configured ELSE hint)
           /\ (call.pc = "returned" /\ Len(call.result[1].alternatives) > 0) =>
                  call.result[1].alternatives[1].language
                      = (IF Given(detected) THEN detected[1]
                         ELSE IF Given(configured) THEN configured[1]
                         ELSE IF Given(hint) THEN hint[1]
                         ELSE <<>>)

\* configured "en", hint "de", a transcript without a language in the
\* response: "en" was sent and "en" is reported
C37_Witness ==
    /\ call.kind = "stt"
    /\ call.pc = "returned"
    /\ Len(stt_opts.language) > 0 /\ Len(stt_opts.language[1]) > 0
    /\ Len(call.language) > 0 /\ Len(call.language[1]) > 0
    /\ Len(call.result[1].alternatives) > 0
    /\ Len(extract_language(decoded_body(call.outcome.response.content))) = 0
    /\ call.payload[1].language = stt_opts.language
    /\ call.result[1].alternatives[1].language = stt_opts.language[1]

====
